---- MODULE Spec2Model ----
(***************************************************************************)
(* Model of mlsetup.py (mlrun-setup): the Kubernetes backend K8sConfig     *)
(* (start / stop / pause / scale), the persisted .env record it reads and  *)
(* writes through BaseConfig.set_env / clear_env, and the cluster the      *)
(* external commands (kubectl, helm, docker) act on.                       *)
(*                                                                         *)
(* One process runs at a time.  Every external command, every prompt and   *)
(* every write of the record is one step, so that an abort (SystemExit, an *)
(* exception) or a kill of the process can fall between any two of them.   *)
(***************************************************************************)
EXTENDS Integers, Sequences, FiniteSets, TLC

VARIABLES
    fileExists,   \* os.path.isfile(self.filename)
    env,          \* the KEY=value pairs of the .env file (a function)
    namespaces,   \* cluster: the namespaces that exist
    releases,     \* cluster: the installed Helm releases, <<namespace, name>>
    secrets,      \* cluster: the namespaces that hold a secret registry-credentials
    container,    \* docker: a container named docker-registry exists
    userSecrets,  \* cluster: the namespaces whose registry-credentials secret the
                  \* user made with kubectl, not a start of this program
    pc,           \* position of the running call ("idle": none is running)
    op,           \* the method the last call entered
    args,         \* the arguments of the last call
    loc,          \* the local variables of the last call
    trace,        \* the external commands and record writes of the last call
    result,       \* how the last call ended
    exitCode,     \* the exit status of the last call
    installOk,    \* history: helm install returned 0 since the last deletion of the file
    entryEmpty    \* history: the running call found the record empty

vars == <<fileExists, env, namespaces, releases, secrets, container, userSecrets,
          pc, op, args, loc, trace, result, exitCode, installOk, entryEmpty>>

----------------------------------------------------------------------------
(* Bounds and input sets *)

MaxOpts == 1

Namespaces == {"mlrun"}
Names == {"mlrun-ce"}
ExternalAddrs == {"", "1.2.3.4"}
FailCodes == {1, 2}
Answers == {"n", "y"}

----------------------------------------------------------------------------
(* Module-level constants of mlsetup.py *)

K8sStages_none == 0
K8sStages_namespace == 1
K8sStages_helm == 2
K8sStages_registry == 3
K8sStages_done == 9

DbPort == 30070

valid_registry_args ==
    {"kind", "server", "username", "password", "email", "url", "secret", "push_secret"}

\* A service name is the sequence of its characters: parse_services reads service[0].
optional_services ==
    { <<"s","p","a","r","k">>,
      <<"m","o","n","i","t","o","r","i","n","g">>,
      <<"j","u","p","y","t","e","r">>,
      <<"p","i","p","e","l","i","n","e","s">> }

service_map ==
    [c \in {"s", "m", "j", "p"} |->
        CASE c = "s" -> "spark-operator"
          [] c = "m" -> "kube-prometheus-stack"
          [] c = "j" -> "jupyterNotebook"
          [] c = "p" -> "pipelines"]

----------------------------------------------------------------------------
(* str() and int() on the stage ordinal *)

Digit == <<"0", "1", "2", "3", "4", "5", "6", "7", "8", "9">>

RECURSIVE IntToStr(_)
IntToStr(n) ==
    IF n < 10 THEN Digit[n + 1]
    ELSE IntToStr(n \div 10) \o Digit[(n % 10) + 1]

StrToInt(s) == CHOOSE n \in 0..99 : IntToStr(n) = s

----------------------------------------------------------------------------
(* The persisted record *)

K_MOCK == "MLRUN_MOCK_NUCLIO_DEPLOYMENT"
K_LAST == "MLRUN_CONF_LAST_DEPLOYMENT"
K_HELM == "MLRUN_CONF_HELM_DEPLOYMENT"
K_NS == "MLRUN_CONF_K8S_NAMESPACE"
K_STAGE == "MLRUN_CONF_K8S_STAGE"
K_SECRET == "MLRUN_CONF_K8S_REGISTRY_SECRET"
K_REGISTRY == "MLRUN_CONF_K8S_DOCKER_REGISTRY"
K_DBPATH == "MLRUN_DBPATH"

EmptyDict == [k \in {} |-> ""]

\* dict.get(key, default)
Get(d, k, default) == IF k \in DOMAIN d THEN d[k] ELSE default

\* BaseConfig.get_env: dotenv_values of the file, {} when there is no file
GetEnv == IF fileExists THEN env ELSE EmptyDict

\* dict.update
Update(d, e) ==
    [k \in DOMAIN d \cup DOMAIN e |-> IF k \in DOMAIN e THEN e[k] ELSE d[k]]

\* BaseConfig.set_env: dotenv.set_key(filename, key, str(value)) for every key
\* (set_key creates the file); env_vars_opt is taken empty.
SetEnvResult(settings) == Update(GetEnv, settings)

\* str(value) of every value of env_settings: the stage is the only non-string
Stringify(settings) ==
    [k \in DOMAIN settings |->
        IF k = K_STAGE THEN IntToStr(settings[k]) ELSE settings[k]]

\* mutant of ClearedKeys: the stage is unset with the connection keys
ClearedKeysAndStage(delete_keys) ==
    {K_DBPATH, K_LAST, K_MOCK, K_STAGE} \cup delete_keys

\* mutant of ClearedKeys: the last deployment is not unset
ClearedKeysKeepLast(delete_keys) == {K_DBPATH, K_MOCK} \cup delete_keys

\* BaseConfig.clear_env without delete_file: dotenv.unset_key for these keys
ClearedKeys(delete_keys) == {K_DBPATH, K_LAST, K_MOCK} \cup delete_keys

\* int(env.get("MLRUN_CONF_K8S_STAGE", "0")) of the file as it is now
Stage == StrToInt(Get(GetEnv, K_STAGE, "0"))

DbPath == Get(GetEnv, K_DBPATH, "")

----------------------------------------------------------------------------
(* The trace of a call: what it executed, printed instead, and wrote *)

Entry(t, kind, argv, set) == [t |-> t, kind |-> kind, argv |-> argv, set |-> set]

\* the external processes a call spawned (a simulated command spawns none)
Spawned == {i \in 1..Len(trace) : trace[i].t = "exec"}
\* the commands a call issued, spawned or printed as DUMMY
Issued(kind) == {i \in 1..Len(trace) : trace[i].t \in {"exec", "dummy"} /\ trace[i].kind = kind}
\* the writes of the record a call made
Writes == {i \in 1..Len(trace) : trace[i].t \in {"set_env", "clear_env"}}

----------------------------------------------------------------------------
(* The external tools: what a command does to the cluster, and its exit code *)

Cluster == [namespaces |-> namespaces, releases |-> releases,
            secrets |-> secrets, container |-> container]

Outcome(rc, c) == [rc |-> rc, c |-> c]

Failures == {Outcome(rc, Cluster) : rc \in FailCodes}

\* kubectl get namespace <ns> / kubectl -n <ns> get secret <name>: 0 when the
\* resource is there, 1 for NotFound, any non-zero code when the cluster cannot
\* be reached, 99 from do_popen when kubectl is not found
GetNamespaceOutcomes(ns) ==
    Failures \cup {Outcome(99, Cluster)}
    \cup (IF ns \in namespaces THEN {Outcome(0, Cluster)} ELSE {})

GetSecretOutcomes(ns) ==
    Failures \cup {Outcome(99, Cluster)}
    \cup (IF ns \in secrets THEN {Outcome(0, Cluster)} ELSE {})

\* kubectl delete namespace <ns>: takes the namespace's releases and secrets with it
DeleteNamespaceOutcomes(ns) ==
    Failures \cup
    (IF ns \in namespaces
     THEN {Outcome(0, [Cluster EXCEPT !.namespaces = @ \ {ns},
                                      !.releases = {r \in @ : r[1] # ns},
                                      !.secrets = @ \ {ns}])}
     ELSE {})

\* kubectl create namespace <ns>
CreateNamespaceOutcomes(ns) ==
    Failures \cup
    (IF ns \notin namespaces
     THEN {Outcome(0, [Cluster EXCEPT !.namespaces = @ \cup {ns}])}
     ELSE {})

\* helm repo add / list / update
HelmRepoOutcomes == Failures \cup {Outcome(0, Cluster)}

\* docker run -d -p 5000:5000 --name docker-registry registry:2.7
DockerRunOutcomes ==
    Failures \cup
    (IF ~container THEN {Outcome(0, [Cluster EXCEPT !.container = TRUE])} ELSE {})

\* docker rm -f <registry>
DockerRmOutcomes ==
    Failures \cup {Outcome(0, [Cluster EXCEPT !.container = FALSE])}

\* kubectl --namespace <ns> create secret docker-registry registry-credentials ...
CreateSecretOutcomes(ns) ==
    Failures \cup
    (IF ns \in namespaces /\ ns \notin secrets
     THEN {Outcome(0, [Cluster EXCEPT !.secrets = @ \cup {ns}])}
     ELSE {})

\* kubectl -n <ns> delete secret registry-credentials
DeleteSecretOutcomes(ns) ==
    Failures \cup
    (IF ns \in secrets
     THEN {Outcome(0, [Cluster EXCEPT !.secrets = @ \ {ns}])}
     ELSE {})

\* helm --namespace <ns> install <name> --wait ...
HelmInstallOutcomes(ns, name) ==
    Failures \cup
    (IF ns \in namespaces /\ <<ns, name>> \notin releases
     THEN {Outcome(0, [Cluster EXCEPT !.releases = @ \cup {<<ns, name>>}])}
     ELSE {})

\* helm --namespace <ns> uninstall <name> --wait
HelmUninstallOutcomes(ns, name) ==
    Failures \cup
    (IF <<ns, name>> \in releases
     THEN {Outcome(0, [Cluster EXCEPT !.releases = @ \ {<<ns, name>>}])}
     ELSE {})

\* kubectl --namespace <ns> delete pod --force --grace-period=0 --all
DeletePodsOutcomes == Failures \cup {Outcome(0, Cluster)}

\* BaseConfig.do_popen: in simulate mode print "DUMMY: ..." and return 0; else
\* run the command and return its exit code
Popen(outcomes) == IF args.simulate THEN {Outcome(0, Cluster)} ELSE outcomes

do_popen(kind, argv, o) ==
    /\ namespaces' = o.c.namespaces
    /\ releases' = o.c.releases
    /\ secrets' = o.c.secrets
    /\ container' = o.c.container
    /\ userSecrets' = userSecrets \cap o.c.secrets
    /\ trace' = Append(trace, Entry(IF args.simulate THEN "dummy" ELSE "exec",
                                    kind, argv, EmptyDict))

\* mutant of check_k8s_resource_exist: only exit code 0 means the resource exists
check_k8s_resource_exist_zero(rc) == rc = 0

\* K8sConfig.check_k8s_resource_exist on the exit code of kubectl get
check_k8s_resource_exist(rc) == rc # 1

UnchangedCluster == UNCHANGED <<namespaces, releases, secrets, container, userSecrets>>
UnchangedFile == UNCHANGED <<fileExists, env>>

\* BaseConfig.set_env as a step of the running call
set_env(settings) ==
    /\ fileExists' = TRUE
    /\ env' = SetEnvResult(settings)
    /\ trace' = Append(trace, Entry("set_env", "", <<>>, settings))

\* raise SystemExit(returncode)
SystemExit(rc) ==
    /\ pc' = "done"
    /\ result' = "SystemExit"
    /\ exitCode' = rc

\* an uncaught exception ends the process with exit status 1
Raise(exc) ==
    /\ pc' = "done"
    /\ result' = exc
    /\ exitCode' = 1

\* the method returns
Return ==
    /\ pc' = "done"
    /\ result' = "returned"
    /\ exitCode' = 0

Goto(l) ==
    /\ pc' = l
    /\ UNCHANGED <<result, exitCode>>

----------------------------------------------------------------------------
(* Inputs of a call *)

\* the entries a caller may pass under --options / --disable, as character sequences
ServiceInputs ==
    optional_services \cup
    { <<"s">>, <<"m">>, <<"j">>, <<"p">>, <<"x">>, <<"s","x">>, <<>> }

RECURSIVE SeqsUpTo(_, _)
SeqsUpTo(S, n) ==
    IF n = 0 THEN {<<>>}
    ELSE LET shorter == SeqsUpTo(S, n - 1)
         IN  shorter \cup {Append(q, x) : q \in shorter, x \in S}

OptionLists == SeqsUpTo(ServiceInputs, MaxOpts)

\* one -r argument, already cut at its first "=" (eq: it holds one)
KV(k, v) == [eq |-> TRUE, key |-> k, value |-> v]
Bare(w) == [eq |-> FALSE, key |-> "", value |-> w]

RegistryArgChoices ==
    { <<>>,
      <<Bare("local")>>,
      <<Bare("local"), KV("url", "reg.io:5000")>>,
      <<KV("secret", "my-secret"), KV("url", "reg.io")>>,
      <<KV("secret", "my-secret")>>,
      <<KV("username", "joe"), KV("password", "pw1"), KV("email", "joe@x")>>,
      <<KV("bogus", "1")>> }

\* os.environ, as far as configure_registry reads it
OsEnvirons ==
    { EmptyDict,
      [k \in {"DOCKER_USERNAME", "DOCKER_PASSWORD", "DOCKER_EMAIL"} |->
          CASE k = "DOCKER_USERNAME" -> "envjoe"
            [] k = "DOCKER_PASSWORD" -> "envpw"
            [] k = "DOCKER_EMAIL" -> "envjoe@x"] }

NoArgs ==
    [simulate |-> FALSE, name |-> "", namespace |-> "", registry_args |-> <<>>,
     external_addr |-> "", options |-> <<>>, disable |-> <<>>, cleanup |-> FALSE,
     services |-> EmptyDict]

NoLocals ==
    [service_options |-> <<>>, service_disable |-> <<>>, env_settings |-> EmptyDict,
     registry_url |-> "", pull_secret |-> "", push_secret |-> "",
     new_settings |-> EmptyDict, docker_secret_cmd |-> <<>>,
     stage |-> 0, helm_name |-> "", namespace |-> "", reg_secret |-> "", registry |-> "",
     returncode |-> 0, todo |-> <<>>,
     exists |-> FALSE, text |-> "", stderr |-> "", failed |-> {},
     status |-> EmptyDict]

----------------------------------------------------------------------------
(* K8sConfig.parse_services *)

\* mutant of ServiceAccepted: only the first letter is looked up
ServiceAcceptedByFirstLetter(service) ==
    Len(service) >= 1 /\ service[1] \in DOMAIN service_map

ServiceAccepted(service) ==
    service \in optional_services \/ (Len(service) = 1 /\ service[1] \in DOMAIN service_map)

ParseRaises(include) == \E i \in 1..Len(include) : ~ServiceAccepted(include[i])

parse_services(include, enable) ==
    [i \in 1..Len(include) |-> service_map[include[i][1]] \o ".enabled=" \o enable]

----------------------------------------------------------------------------
(* _list2dict *)

None == "<None>"

RECURSIVE list2dict(_, _, _)
list2dict(lines, default_key, default_value) ==
    IF lines = <<>> THEN EmptyDict
    ELSE LET out == list2dict(SubSeq(lines, 1, Len(lines) - 1), default_key, default_value)
             line == lines[Len(lines)]
         IN  IF ~line.eq
             THEN IF line.value # "" /\ default_key # ""
                  THEN Update(out, [k \in {default_key} |-> line.value])
                  ELSE IF line.value # "" /\ default_value # None
                       THEN Update(out, [k \in {line.value} |-> default_value])
                       ELSE out
             ELSE Update(out, [k \in {line.key} |-> line.value])

----------------------------------------------------------------------------
(* K8sConfig.start.  verbose, settings and chart_ver keep their defaults. *)

\* a or b, on strings ("" and None are false)
Or(a, b) == IF a # "" /\ a # None THEN a ELSE b

Tags == {"1.6.1"}
HostIps == {"10.0.0.5"}

\* start(): parse_services on both lists, then the tag
K8sStart(simulate, name, namespace, registry_args, external_addr, options, disable) ==
    /\ pc \in {"idle", "invoke"}
    /\ entryEmpty' = (GetEnv = EmptyDict)
    /\ op' = "start"
    /\ args' = [NoArgs EXCEPT !.simulate = simulate, !.name = name,
                              !.namespace = namespace,
                              !.registry_args = registry_args,
                              !.external_addr = external_addr,
                              !.options = options, !.disable = disable]
    /\ trace' = <<>>
    /\ IF ParseRaises(options) \/ ParseRaises(disable)
       THEN /\ Raise("ValueError")
            /\ loc' = NoLocals
       ELSE /\ pc' = "ns_probe"
            /\ result' = "running"
            /\ exitCode' = 0
            /\ loc' = [NoLocals EXCEPT
                         !.service_options = parse_services(options, "true"),
                         !.service_disable = parse_services(disable, "false")]
    /\ UnchangedCluster /\ UnchangedFile /\ UNCHANGED installOk

\* mutant of AfterNamespaceProbe: a refused overwrite still creates the namespace
AfterNamespaceProbeAlwaysCreate(exists, text) ==
    IF exists /\ text = "y" THEN "ns_delete" ELSE "ns_create"

\* what start does after the namespace probe and the overwrite prompt
AfterNamespaceProbe(exists, text) ==
    IF exists
    THEN IF text = "y" THEN "ns_delete" ELSE "write_ns"
    ELSE "ns_create"

\* check_k8s_resource_exist("namespace", namespace) and the overwrite prompt
NamespaceProbe ==
    /\ pc = "ns_probe"
    /\ \E o \in Popen(GetNamespaceOutcomes(args.namespace)), text \in Answers :
         /\ do_popen("get_namespace", <<"kubectl", "get", "namespace", args.namespace>>, o)
         /\ Goto(AfterNamespaceProbe(check_k8s_resource_exist(o.rc), text))
         /\ loc' = [loc EXCEPT !.returncode = o.rc,
                               !.exists = check_k8s_resource_exist(o.rc),
                               !.text = IF check_k8s_resource_exist(o.rc) THEN text ELSE ""]
    /\ UnchangedFile /\ UNCHANGED <<op, args, installOk>>
    /\ UNCHANGED entryEmpty

\* kubectl delete namespace: any failure is fatal
NamespaceDelete ==
    /\ pc = "ns_delete"
    /\ \E o \in Popen(DeleteNamespaceOutcomes(args.namespace)) :
         /\ do_popen("delete_namespace", <<"kubectl", "delete", "namespace", args.namespace>>, o)
         /\ IF o.rc # 0 THEN SystemExit(o.rc) ELSE Goto("ns_create")
         /\ loc' = [loc EXCEPT !.returncode = o.rc]
    /\ UnchangedFile /\ UNCHANGED <<op, args, installOk>>
    /\ UNCHANGED entryEmpty

\* what a failing kubectl create namespace writes to its stderr: the server's
\* AlreadyExists when the namespace is there, else a connection error
CreateNamespaceErrors(ns) ==
    IF ns \in namespaces THEN {"AlreadyExists", "Unable to connect"}
    ELSE {"Unable to connect"}

\* the stderr text start sees of an interactive do_popen: always ""
InteractiveErr == ""

\* "AlreadyExists" in err
HasAlreadyExists(err) == err = "AlreadyExists"

\* kubectl create namespace, run interactive
NamespaceCreate ==
    /\ pc = "ns_create"
    /\ \E o \in Popen(CreateNamespaceOutcomes(args.namespace)) :
         /\ do_popen("create_namespace", <<"kubectl", "create", "namespace", args.namespace>>, o)
         /\ IF o.rc # 0 /\ ~HasAlreadyExists(InteractiveErr)
            THEN SystemExit(o.rc)
            ELSE Goto("write_ns")
         /\ \E e \in (IF o.rc # 0 /\ ~args.simulate
                       THEN CreateNamespaceErrors(args.namespace) ELSE {""}) :
               loc' = [loc EXCEPT !.returncode = o.rc, !.stderr = e]
    /\ UnchangedFile /\ UNCHANGED <<op, args, installOk>>
    /\ UNCHANGED entryEmpty

\* mutant of NamespaceSettings: the endpoint is published with the first write
NamespaceSettingsPublishing ==
    [k \in {K_MOCK, K_LAST, K_HELM, K_NS, K_STAGE, K_DBPATH} |->
        CASE k = K_MOCK -> ""
          [] k = K_LAST -> "kubernetes"
          [] k = K_HELM -> args.name
          [] k = K_NS -> args.namespace
          [] k = K_STAGE -> K8sStages_namespace
          [] k = K_DBPATH -> "http://localhost:30070"]

\* env_settings as start first builds it
NamespaceSettings ==
    [k \in {K_MOCK, K_LAST, K_HELM, K_NS, K_STAGE} |->
        CASE k = K_MOCK -> ""
          [] k = K_LAST -> "kubernetes"
          [] k = K_HELM -> args.name
          [] k = K_NS -> args.namespace
          [] k = K_STAGE -> K8sStages_namespace]

\* self.set_env(env_settings) with stage = namespace
WriteNamespaceStage ==
    /\ pc = "write_ns"
    /\ loc' = [loc EXCEPT !.env_settings = NamespaceSettings]
    /\ set_env(Stringify(NamespaceSettings))
    /\ Goto("helm_repo_add")
    /\ UnchangedCluster /\ UNCHANGED <<op, args, installOk>>
    /\ UNCHANGED entryEmpty

helm_commands ==
    [helm_repo_add |-> <<"helm", "repo", "add", "mlrun-ce", "https://mlrun.github.io/ce">>,
     helm_repo_list |-> <<"helm", "repo", "list">>,
     helm_repo_update |-> <<"helm", "repo", "update">>]

\* mutant of AfterHelmCommand: the loop over helm_commands ends after one command
AfterHelmCommandOnce(l) == "write_helm"

AfterHelmCommand(l) ==
    CASE l = "helm_repo_add" -> "helm_repo_list"
      [] l = "helm_repo_list" -> "helm_repo_update"
      [] l = "helm_repo_update" -> "write_helm"

\* for command in helm_commands: any failure is fatal
HelmRepo ==
    /\ pc \in DOMAIN helm_commands
    /\ \E o \in Popen(HelmRepoOutcomes) :
         /\ do_popen(pc, helm_commands[pc], o)
         /\ IF o.rc # 0 THEN SystemExit(o.rc) ELSE Goto(AfterHelmCommand(pc))
         /\ loc' = [loc EXCEPT !.returncode = o.rc]
    /\ UnchangedFile /\ UNCHANGED <<op, args, installOk>>
    /\ UNCHANGED entryEmpty

\* self.set_env(env_settings) with stage = helm
WriteHelmStage ==
    /\ pc = "write_helm"
    /\ LET settings == [loc.env_settings EXCEPT ![K_STAGE] = K8sStages_helm]
       IN  /\ loc' = [loc EXCEPT !.env_settings = settings]
           /\ set_env(Stringify(settings))
    /\ Goto("registry")
    /\ UnchangedCluster /\ UNCHANGED <<op, args, installOk>>
    /\ UNCHANGED entryEmpty

----------------------------------------------------------------------------
(* K8sConfig.configure_registry *)

\* what the user types at the prompts for missing credentials
Prompted == [username |-> "typedjoe", password |-> "typedpw", email |-> "typed@x"]

\* registry_args after the "container registry kind or args" prompt
RegistryArgsGiven(osenv, typed) ==
    IF args.registry_args = <<>> /\ "DOCKER_USERNAME" \notin DOMAIN osenv
    THEN typed
    ELSE args.registry_args

RegistryDict(osenv, typed) == list2dict(RegistryArgsGiven(osenv, typed), "kind", None)

IllegalRegistryArg(d) == \E key \in DOMAIN d : key \notin valid_registry_args

RegistryUsername(d, osenv) ==
    Or(Get(d, "username", None), Or(Get(osenv, "DOCKER_USERNAME", None), Prompted.username))

RegistryPassword(d, osenv) ==
    Or(Get(d, "password", None), Or(Get(osenv, "DOCKER_PASSWORD", None), Prompted.password))

RegistryEmail(d, osenv) ==
    IF Get(d, "kind", "docker") \in {"docker"}
    THEN Or(Get(d, "email", None), Or(Get(osenv, "DOCKER_EMAIL", None), Prompted.email))
    ELSE Get(d, "email", None)

RegistryService(d) == Or(Get(d, "service", ""), "https://index.docker.io/v1/")

DockerSecretCmd(d, osenv) ==
    <<"kubectl", "--namespace", args.namespace, "create", "secret", "docker-registry",
      "registry-credentials",
      "--docker-server", RegistryService(d),
      "--docker-username", RegistryUsername(d, osenv),
      "--docker-password", RegistryPassword(d, osenv),
      "--docker-email", RegistryEmail(d, osenv)>>

\* mutant of RegistryPath: a secret is created even when one is given
RegistryPathAlwaysCreates(d) ==
    IF IllegalRegistryArg(d) THEN "illegal"
    ELSE IF Get(d, "kind", "docker") = "local"
         THEN IF Get(d, "url", "") = "" THEN "local_run" ELSE "local_url"
         ELSE "create_secret"

\* the path configure_registry takes on its arguments:
\* "illegal" / "no_url": ValueError; "local_run": start the local registry;
\* "local_url", "given_secret": return at once; "create_secret": the secret path
RegistryPath(d) ==
    IF IllegalRegistryArg(d) THEN "illegal"
    ELSE IF Get(d, "kind", "docker") = "local"
         THEN IF Get(d, "url", "") = "" THEN "local_run" ELSE "local_url"
         ELSE IF Get(d, "secret", "") # ""
              THEN IF Get(d, "url", "") = "" THEN "no_url" ELSE "given_secret"
              ELSE "create_secret"

\* configure_registry up to its first external command
ConfigureRegistry ==
    /\ pc = "registry"
    /\ \E osenv \in OsEnvirons, typed \in RegistryArgChoices \ {<<>>} :
         LET d == RegistryDict(osenv, typed)
             path == RegistryPath(d)
         IN  CASE path \in {"illegal", "no_url"} ->
                    /\ Raise("ValueError")
                    /\ UNCHANGED loc
               [] path = "local_run" ->
                    /\ Goto("reg_run")
                    /\ loc' = [loc EXCEPT !.push_secret = Get(d, "push_secret", "")]
               [] path = "local_url" ->
                    /\ Goto("write_reg")
                    /\ loc' = [loc EXCEPT !.registry_url = Get(d, "url", ""),
                                          !.pull_secret = "",
                                          !.push_secret = Get(d, "push_secret", "")]
               [] path = "given_secret" ->
                    /\ Goto("write_reg")
                    /\ loc' = [loc EXCEPT !.registry_url = Get(d, "url", ""),
                                          !.pull_secret = Get(d, "secret", ""),
                                          !.push_secret = Get(d, "push_secret", "")]
               [] path = "create_secret" ->
                    /\ Goto("sec_probe")
                    /\ loc' = [loc EXCEPT
                         !.registry_url =
                             Or(Get(d, "url", ""), "index.docker.io/" \o RegistryUsername(d, osenv)),
                         !.pull_secret = "registry-credentials",
                         !.push_secret = Get(d, "push_secret", ""),
                         !.docker_secret_cmd = DockerSecretCmd(d, osenv),
                         !.new_settings = [k \in {"REGISTRY_SECRET"} |-> "registry-credentials"]]
    /\ UnchangedCluster /\ UnchangedFile /\ UNCHANGED <<op, args, trace, installOk>>
    /\ UNCHANGED entryEmpty

\* docker run ... --name docker-registry: any failure is fatal
RegistryRun ==
    /\ pc = "reg_run"
    /\ \E o \in Popen(DockerRunOutcomes), ip \in HostIps :
         /\ do_popen("docker_run",
                     <<"docker", "run", "-d", "-p", "5000:5000", "--name",
                       "docker-registry", "registry:2.7">>, o)
         /\ IF o.rc # 0
            THEN SystemExit(o.rc) /\ loc' = [loc EXCEPT !.returncode = o.rc]
            ELSE /\ Goto("write_reg")
                 /\ loc' = [loc EXCEPT
                       !.returncode = o.rc,
                       !.new_settings = [k \in {"DOCKER_REGISTRY"} |-> "docker-registry"],
                       !.registry_url = ip \o ":5000",
                       !.pull_secret = ""]
    /\ UnchangedFile /\ UNCHANGED <<op, args, installOk>>
    /\ UNCHANGED entryEmpty

AfterSecretProbe(exists, text) ==
    IF exists
    THEN IF text = "y" THEN "sec_delete" ELSE "write_reg"
    ELSE "sec_create"

\* check_k8s_resource_exist(secret) and the overwrite prompt
SecretProbe ==
    /\ pc = "sec_probe"
    /\ \E o \in Popen(GetSecretOutcomes(args.namespace)), text \in Answers :
         /\ do_popen("get_secret",
                     <<"kubectl", "-n", args.namespace, "get", "secret", loc.pull_secret>>, o)
         /\ Goto(AfterSecretProbe(check_k8s_resource_exist(o.rc), text))
         /\ loc' = [loc EXCEPT !.returncode = o.rc]
    /\ UnchangedFile /\ UNCHANGED <<op, args, installOk>>
    /\ UNCHANGED entryEmpty

SecretDelete ==
    /\ pc = "sec_delete"
    /\ \E o \in Popen(DeleteSecretOutcomes(args.namespace)) :
         /\ do_popen("delete_secret",
                     <<"kubectl", "-n", args.namespace, "delete", "secret", loc.pull_secret>>, o)
         /\ IF o.rc # 0 THEN SystemExit(o.rc) ELSE Goto("sec_create")
         /\ loc' = [loc EXCEPT !.returncode = o.rc]
    /\ UnchangedFile /\ UNCHANGED <<op, args, installOk>>
    /\ UNCHANGED entryEmpty

SecretCreate ==
    /\ pc = "sec_create"
    /\ \E o \in Popen(CreateSecretOutcomes(args.namespace)) :
         /\ do_popen("create_secret", loc.docker_secret_cmd, o)
         /\ IF o.rc # 0 THEN SystemExit(o.rc) ELSE Goto("write_reg")
         /\ loc' = [loc EXCEPT !.returncode = o.rc]
    /\ UnchangedFile /\ UNCHANGED <<op, args, installOk>>
    /\ UNCHANGED entryEmpty

----------------------------------------------------------------------------
(* K8sConfig.start, from the registry stage on *)

\* env_settings with stage = registry and the MLRUN_CONF_K8S_<setting> keys
RegistrySettings ==
    Update([loc.env_settings EXCEPT ![K_STAGE] = K8sStages_registry],
           [k \in {"MLRUN_CONF_K8S_" \o setting : setting \in DOMAIN loc.new_settings} |->
               IF k = K_SECRET THEN loc.new_settings["REGISTRY_SECRET"]
               ELSE loc.new_settings["DOCKER_REGISTRY"]])

WriteRegistryStage ==
    /\ pc = "write_reg"
    /\ loc' = [loc EXCEPT !.env_settings = RegistrySettings]
    /\ set_env(Stringify(RegistrySettings))
    /\ Goto("helm_install")
    /\ UnchangedCluster /\ UNCHANGED <<op, args, installOk>>
    /\ UNCHANGED entryEmpty

Sets(opts) == [i \in 1..(2 * Len(opts)) |-> IF i % 2 = 1 THEN "--set" ELSE opts[i \div 2]]

helm_run_cmd(tag) ==
    <<"helm", "--namespace", args.namespace, "install", args.name, "--wait",
      "--timeout", "960s", "--set", "global.registry.url=" \o loc.registry_url>>
    \o (IF loc.pull_secret # ""
        THEN <<"--set", "global.registry.secretName=" \o loc.pull_secret>> ELSE <<>>)
    \o (IF loc.push_secret # ""
        THEN <<"--set", "nuclio.dashboard.kaniko.registryProviderSecretName=" \o loc.push_secret,
               "--set", "mlrun.defaultDockerRegistrySecretName=" \o loc.push_secret>>
        ELSE <<>>)
    \o (IF args.external_addr # ""
        THEN <<"--set", "global.externalHostAddress=" \o args.external_addr>> ELSE <<>>)
    \o (IF tag # ""
        THEN Sets(<<"mlrun.api.image.tag=" \o tag, "mlrun.ui.image.tag=" \o tag,
                    "jupyterNotebook.image.tag=" \o tag>>)
        ELSE <<>>)
    \o Sets(loc.service_options)
    \o Sets(loc.service_disable)
    \o <<"mlrun-ce/mlrun-ce">>

\* mutant of AfterInstall: the exit code of helm install is not looked at
AfterInstallUnchecked(rc) == "write_done"

\* what start does on the exit code of helm install
AfterInstall(rc) == IF rc # 0 THEN "exit" ELSE "write_done"

\* helm install; tag is the --tag option or get_latest_mlrun_tag(), resolved
\* before the namespace step and read only here
HelmInstall ==
    /\ pc = "helm_install"
    /\ \E o \in Popen(HelmInstallOutcomes(args.namespace, args.name)), tag \in Tags :
         /\ do_popen("helm_install", helm_run_cmd(tag), o)
         /\ IF AfterInstall(o.rc) = "exit"
            THEN SystemExit(o.rc)
            ELSE Goto(AfterInstall(o.rc))
         /\ installOk' = (installOk \/ o.rc = 0)
         /\ loc' = [loc EXCEPT !.returncode = o.rc]
    /\ UnchangedFile /\ UNCHANGED <<op, args>>
    /\ UNCHANGED entryEmpty

\* mutant of dbpath: external_addr is not used
dbpathLocalhost == "http://localhost:" \o IntToStr(DbPort)

dbpath == "http://" \o Or(args.external_addr, "localhost") \o ":" \o IntToStr(DbPort)

DoneSettings ==
    Update([loc.env_settings EXCEPT ![K_STAGE] = K8sStages_done],
           [k \in {K_DBPATH} |-> dbpath])

WriteDoneStage ==
    /\ pc = "write_done"
    /\ loc' = [loc EXCEPT !.env_settings = DoneSettings]
    /\ set_env(Stringify(DoneSettings))
    /\ Return
    /\ UnchangedCluster /\ UNCHANGED <<op, args, installOk>>
    /\ UNCHANGED entryEmpty

----------------------------------------------------------------------------
(* K8sConfig.stop *)

\* mutant of StopPlan: the namespace is deleted before the registry cleanup
StopPlanNamespaceFirst(stage, helm_name, cleanup, pull_secret, registry) ==
    (IF helm_name # "" /\ stage >= K8sStages_done THEN <<"uninstall">> ELSE <<>>)
    \o (IF cleanup /\ stage >= K8sStages_namespace
        THEN <<"stop_del_pods", "stop_del_ns">>
        ELSE <<>>)
    \o (IF cleanup /\ stage >= K8sStages_registry
        THEN (IF pull_secret # "" THEN <<"stop_del_secret">> ELSE <<>>)
             \o (IF registry # "" THEN <<"stop_rm_registry">> ELSE <<>>)
        ELSE <<>>)
    \o <<"stop_clear">>

\* mutant of StopPlan: the cleanup sections run whether cleanup is asked or not
StopPlanAlwaysCleanup(stage, helm_name, cleanup, pull_secret, registry) ==
    (IF helm_name # "" /\ stage >= K8sStages_done THEN <<"uninstall">> ELSE <<>>)
    \o (IF stage >= K8sStages_registry
        THEN (IF pull_secret # "" THEN <<"stop_del_secret">> ELSE <<>>)
             \o (IF registry # "" THEN <<"stop_rm_registry">> ELSE <<>>)
        ELSE <<>>)
    \o (IF stage >= K8sStages_namespace
        THEN <<"stop_del_pods", "stop_del_ns">>
        ELSE <<>>)
    \o <<"stop_clear">>

\* the sections of stop that run, in order, for the stage, names and keys read
\* at entry and the cleanup flag
StopPlan(stage, helm_name, cleanup, pull_secret, registry) ==
    (IF helm_name # "" /\ stage >= K8sStages_done THEN <<"uninstall">> ELSE <<>>)
    \o (IF cleanup /\ stage >= K8sStages_registry
        THEN (IF pull_secret # "" THEN <<"stop_del_secret">> ELSE <<>>)
             \o (IF registry # "" THEN <<"stop_rm_registry">> ELSE <<>>)
        ELSE <<>>)
    \o (IF cleanup /\ stage >= K8sStages_namespace
        THEN <<"stop_del_pods", "stop_del_ns">>
        ELSE <<>>)
    \o <<"stop_clear">>

Plan == StopPlan(loc.stage, loc.helm_name, args.cleanup, loc.reg_secret, loc.registry)

\* the section after l in the plan ("uninstall" hands over through "stop_write_reg")
AfterSection(l) ==
    LET i == CHOOSE j \in 1..Len(Plan) : Plan[j] = l
    IN  Plan[i + 1]

\* mutant of NothingToDo: stop goes on whatever the stage
NothingToDoNever(stage) == FALSE

\* if not stage: log an error and return
NothingToDo(stage) == stage = K8sStages_none

\* stop(): read the record; nothing to do at stage none
K8sStop(simulate, cleanup) ==
    /\ pc \in {"idle", "invoke"}
    /\ entryEmpty' = (GetEnv = EmptyDict)
    /\ op' = "stop"
    /\ args' = [NoArgs EXCEPT !.simulate = simulate, !.cleanup = cleanup]
    /\ trace' = <<>>
    /\ LET e == GetEnv
           stage == StrToInt(Get(e, K_STAGE, "0"))
           l == [NoLocals EXCEPT !.stage = stage,
                                 !.helm_name = Get(e, K_HELM, ""),
                                 !.namespace = Get(e, K_NS, ""),
                                 !.reg_secret = Get(e, K_SECRET, ""),
                                 !.registry = Get(e, K_REGISTRY, "")]
       IN  IF NothingToDo(stage)
           THEN /\ Return
                /\ loc' = NoLocals
           ELSE /\ loc' = l
                /\ pc' = StopPlan(stage, l.helm_name, cleanup, l.reg_secret, l.registry)[1]
                /\ result' = "running"
                /\ exitCode' = 0
    /\ UnchangedCluster /\ UnchangedFile /\ UNCHANGED installOk

\* mutant of AfterUninstall: the exit code of helm uninstall is not looked at
AfterUninstallUnchecked(rc) == "stop_write_reg"

\* what stop does on the exit code of helm uninstall
AfterUninstall(rc) == IF rc # 0 THEN "stop_blank" ELSE "stop_write_reg"

\* helm uninstall --wait
Uninstall ==
    /\ pc = "uninstall"
    /\ \E o \in Popen(HelmUninstallOutcomes(loc.namespace, loc.helm_name)) :
         /\ do_popen("helm_uninstall",
                     <<"helm", "--namespace", loc.namespace, "uninstall", loc.helm_name, "--wait">>, o)
         /\ Goto(AfterUninstall(o.rc))
         /\ loc' = [loc EXCEPT !.returncode = o.rc]
    /\ UnchangedFile /\ UNCHANGED <<op, args, installOk>>
    /\ UNCHANGED entryEmpty

\* mutant of UninstallFailedSettings: the endpoint is left as it is
UninstallFailedSettingsNone == EmptyDict

\* what stop writes when the uninstall failed
UninstallFailedSettings == [k \in {K_DBPATH} |-> ""]

\* the uninstall failed: disable the DB access and exit with the code
UninstallFailed ==
    /\ pc = "stop_blank"
    /\ set_env(UninstallFailedSettings)
    /\ SystemExit(loc.returncode)
    /\ UnchangedCluster /\ UNCHANGED <<op, args, loc, installOk>>
    /\ UNCHANGED entryEmpty

\* mutant of UninstalledSettings: the stage stays at done after the uninstall
UninstalledSettingsDone == [k \in {K_STAGE} |-> IntToStr(K8sStages_done)]

\* what stop writes when the uninstall succeeded
UninstalledSettings == [k \in {K_STAGE} |-> IntToStr(K8sStages_registry)]

UninstallSucceeded ==
    /\ pc = "stop_write_reg"
    /\ set_env(UninstalledSettings)
    /\ Goto(AfterSection("uninstall"))
    /\ UnchangedCluster /\ UNCHANGED <<op, args, loc, installOk>>
    /\ UNCHANGED entryEmpty

\* the cleanup commands: their exit codes are not looked at
StopCommand(l) ==
    CASE l = "stop_del_secret" ->
            [kind |-> "delete_secret",
             argv |-> <<"kubectl", "--namespace", loc.namespace, "delete", "secret", loc.reg_secret>>,
             outcomes |-> DeleteSecretOutcomes(loc.namespace)]
      [] l = "stop_rm_registry" ->
            [kind |-> "docker_rm",
             argv |-> <<"docker", "rm", "-f", loc.registry>>,
             outcomes |-> DockerRmOutcomes]
      [] l = "stop_del_pods" ->
            [kind |-> "delete_pods",
             argv |-> <<"kubectl", "--namespace", loc.namespace, "delete", "pod",
                        "--force", "--grace-period=0", "--all">>,
             outcomes |-> DeletePodsOutcomes]
      [] l = "stop_del_ns" ->
            [kind |-> "delete_namespace",
             argv |-> <<"kubectl", "delete", "namespace", loc.namespace>>,
             outcomes |-> DeleteNamespaceOutcomes(loc.namespace)]

\* mutant of AfterCleanup: a failed cleanup command ends the cleanup
AfterCleanupChecked(l, rc) == IF rc # 0 THEN "stop_clear" ELSE AfterSection(l)

\* what stop does after the cleanup command l returned rc: the next section
AfterCleanup(l, rc) == AfterSection(l)

\* a cleanup command: stop does not look at its exit code (failed keeps the
\* sections whose command returned non-zero)
Cleanup ==
    /\ pc \in {"stop_del_secret", "stop_rm_registry", "stop_del_pods", "stop_del_ns"}
    /\ \E o \in Popen(StopCommand(pc).outcomes) :
         /\ do_popen(StopCommand(pc).kind, StopCommand(pc).argv, o)
         /\ Goto(AfterCleanup(pc, o.rc))
         /\ loc' = [loc EXCEPT !.failed = @ \cup (IF o.rc # 0 THEN {pc} ELSE {})]
    /\ UnchangedFile /\ UNCHANGED <<op, args, installOk>>
    /\ UNCHANGED entryEmpty

\* BaseConfig.clear_env(delete_file, delete_keys)
clear_env(delete_file, delete_keys) ==
    /\ IF fileExists
       THEN IF delete_file
            THEN /\ fileExists' = FALSE
                 /\ env' = EmptyDict
                 /\ installOk' = FALSE
            ELSE /\ fileExists' = TRUE
                 /\ env' = [k \in DOMAIN env \ ClearedKeys(delete_keys) |-> env[k]]
                 /\ UNCHANGED installOk
       ELSE UNCHANGED <<fileExists, env, installOk>>
    /\ trace' = Append(trace, Entry("clear_env", IF delete_file THEN "file" ELSE "keys",
                                    <<>>, EmptyDict))

\* self.clear_env(cleanup, delete_keys=[])
StopClear ==
    /\ pc = "stop_clear"
    /\ clear_env(args.cleanup, {})
    /\ Return
    /\ UnchangedCluster /\ UNCHANGED <<op, args, loc>>
    /\ UNCHANGED entryEmpty

----------------------------------------------------------------------------
(* K8sConfig.pause, K8sConfig.scale and check_scale *)

scaled_deplyoments ==
    <<"mlrun-api-chief", "mlrun-db", "mlrun-jupyter", "mlrun-ui", "mpi-operator",
      "nuclio-controller", "nuclio-dashboard">>

\* the --services arguments of the scale command
ServiceChoices == { <<>>, <<KV("mlrun-jupyter", "0")>>, <<Bare("mlrun-ui")>> }

\* kubectl -n <ns> scale deployments.apps ...: needs the deployments of a release
ScaleOutcomes(ns) ==
    Failures \cup
    (IF \E r \in releases : r[1] = ns THEN {Outcome(0, Cluster)} ELSE {})

\* pause(): one scale command for the whole fixed set
K8sPause(simulate) ==
    /\ pc \in {"idle", "invoke"}
    /\ entryEmpty' = (GetEnv = EmptyDict)
    /\ op' = "pause"
    /\ args' = [NoArgs EXCEPT !.simulate = simulate]
    /\ loc' = [NoLocals EXCEPT !.namespace = Get(GetEnv, K_NS, "")]
    /\ trace' = <<>>
    /\ pc' = "pause_cmd"
    /\ result' = "running"
    /\ exitCode' = 0
    /\ UnchangedCluster /\ UnchangedFile /\ UNCHANGED installOk

PauseCommand ==
    /\ pc = "pause_cmd"
    /\ \E o \in Popen(ScaleOutcomes(loc.namespace)) :
         /\ do_popen("scale",
                     <<"kubectl", "-n", loc.namespace, "scale", "deployments.apps">>
                     \o scaled_deplyoments \o <<"--replicas=0">>, o)
         /\ IF o.rc # 0 THEN SystemExit(o.rc) ELSE Goto("poll")
    /\ UnchangedFile /\ UNCHANGED <<op, args, loc, installOk>>
    /\ UNCHANGED entryEmpty

\* the keys of the services dict, in order
RECURSIVE Keys(_)
Keys(lines) ==
    IF lines = <<>> THEN <<>>
    ELSE LET line == lines[1]
             k == IF line.eq THEN line.key ELSE line.value
         IN  <<k>> \o SelectSeq(Keys(Tail(lines)), LAMBDA x : x # k)

\* scale(services): services = _list2dict(services, default_value="1")
K8sScale(simulate, services) ==
    /\ pc \in {"idle", "invoke"}
    /\ entryEmpty' = (GetEnv = EmptyDict)
    /\ op' = "scale"
    /\ args' = [NoArgs EXCEPT !.simulate = simulate,
                              !.services = list2dict(services, "", "1")]
    /\ loc' = [NoLocals EXCEPT !.namespace = Get(GetEnv, K_NS, ""),
                               !.todo = IF services # <<>> THEN Keys(services)
                                        ELSE scaled_deplyoments]
    /\ trace' = <<>>
    /\ pc' = "scale_cmd"
    /\ result' = "running"
    /\ exitCode' = 0
    /\ UnchangedCluster /\ UnchangedFile /\ UNCHANGED installOk

\* one pass of the loop over the deployments
ScaleCommand ==
    /\ pc = "scale_cmd"
    /\ IF loc.todo = <<>>
       THEN /\ Goto("poll")
            /\ UnchangedCluster /\ UNCHANGED <<loc, trace>>
       ELSE \E o \in Popen(ScaleOutcomes(loc.namespace)) :
              /\ do_popen("scale",
                          <<"kubectl", "-n", loc.namespace, "scale", "deployments.apps",
                            Head(loc.todo),
                            "--replicas=" \o Get(args.services, Head(loc.todo), "1")>>, o)
              /\ IF o.rc # 0
                 THEN SystemExit(o.rc) /\ UNCHANGED loc
                 ELSE Goto("scale_cmd") /\ loc' = [loc EXCEPT !.todo = Tail(@)]
    /\ UnchangedFile /\ UNCHANGED <<op, args, installOk>>
    /\ UNCHANGED entryEmpty

\* the deployments kubectl get deployments.apps lists in the namespace: the
\* fixed set and one deployment of the chart outside it
OtherDeployment == "minio"
Deployments == {scaled_deplyoments[i] : i \in 1..Len(scaled_deplyoments)} \cup {OtherDeployment}

\* a status report: the AVAILABLE column ($4) of every line, by deployment
ReportOf(others, some, n) ==
    [d \in Deployments |-> IF d \in some THEN n ELSE others]

StatusReports ==
    { ReportOf(0, {}, 0),
      ReportOf(1, {}, 1),
      ReportOf(0, {"mlrun-jupyter"}, 1),
      ReportOf(1, {"mlrun-jupyter"}, 0),
      ReportOf(1, {"mlrun-ui", OtherDeployment}, 0) }

\* grep i_scale on a number: the digit occurs in its decimal form
RECURSIVE HasDigit(_, _)
HasDigit(n, d) == n % 10 = d \/ (n >= 10 /\ HasDigit(n \div 10, d))

\* i_scale = "1" if method == "scale" else "0"
i_scale(method) == IF method = "scale" THEN 1 ELSE 0

\* check_scale_status: kubectl get | awk $4 | tail -n +2 | grep i_scale | wc -l
check_scale_status(digit, report) ==
    Cardinality({d \in Deployments : HasDigit(report[d], digit)})

\* check_scale: the first status poll; in simulate mode check_scale_status returns
\* a tuple, which the comparison with len(scaled_deplyoments) rejects; a count
\* below it enters the loop, whose call of check_scale_status lacks an argument
CheckScale ==
    /\ pc = "poll"
    /\ trace' = Append(trace, Entry(IF args.simulate THEN "dummy" ELSE "exec", "get_deployments",
                       <<"kubectl", "-n", loc.namespace, "get", "deployments.apps">>, EmptyDict))
    /\ IF args.simulate
       THEN Raise("TypeError") /\ UNCHANGED loc
       ELSE \E report \in StatusReports :
              /\ loc' = [loc EXCEPT !.status = report]
              /\ IF check_scale_status(i_scale(op), report) < Len(scaled_deplyoments)
                 THEN Raise("TypeError")
                 ELSE Return
    /\ UnchangedCluster /\ UnchangedFile /\ UNCHANGED <<op, args, installOk>>
    /\ UNCHANGED entryEmpty

----------------------------------------------------------------------------
(* The process ends, or is killed (a signal) between two steps: its arguments *)
(* and locals are gone, the file and the cluster stay as they are            *)

ProcessEnds ==
    /\ pc = "done"
    /\ pc' = "idle"
    /\ entryEmpty' = FALSE
    /\ op' = "none"
    /\ args' = NoArgs
    /\ loc' = NoLocals
    /\ trace' = <<>>
    /\ result' = "none"
    /\ exitCode' = 0
    /\ UnchangedCluster /\ UnchangedFile /\ UNCHANGED installOk

Interrupt ==
    /\ pc \notin {"idle", "done"}
    /\ pc' = "idle"
    /\ entryEmpty' = FALSE
    /\ op' = "none"
    /\ args' = NoArgs
    /\ loc' = NoLocals
    /\ trace' = <<>>
    /\ result' = "none"
    /\ exitCode' = 0
    /\ UnchangedCluster /\ UnchangedFile /\ UNCHANGED installOk

----------------------------------------------------------------------------
(* The system *)

\* the option lists of the calls of Spec; SpecServices draws them from OptionLists
FewOptionLists == { <<>>, <<<<"x">>>> }

Init ==
    /\ fileExists = FALSE
    /\ env = EmptyDict
    /\ namespaces = {}
    /\ releases = {}
    /\ secrets = {}
    /\ container = FALSE
    /\ userSecrets = {}
    /\ pc = "idle"
    /\ op = "none"
    /\ args = NoArgs
    /\ loc = NoLocals
    /\ trace = <<>>
    /\ result = "none"
    /\ exitCode = 0
    /\ installOk = FALSE
    /\ entryEmpty = FALSE

StartInputs ==
    \E simulate \in BOOLEAN, name \in Names, namespace \in Namespaces,
       registry_args \in RegistryArgChoices, external_addr \in ExternalAddrs,
       options \in FewOptionLists, disable \in FewOptionLists :
         K8sStart(simulate, name, namespace, registry_args, external_addr, options, disable)

Next ==
    \/ StartInputs
    \/ NamespaceProbe
    \/ NamespaceDelete
    \/ NamespaceCreate
    \/ WriteNamespaceStage
    \/ HelmRepo
    \/ WriteHelmStage
    \/ ConfigureRegistry
    \/ RegistryRun
    \/ SecretProbe
    \/ SecretDelete
    \/ SecretCreate
    \/ WriteRegistryStage
    \/ HelmInstall
    \/ WriteDoneStage
    \/ \E simulate \in BOOLEAN, cleanup \in BOOLEAN : K8sStop(simulate, cleanup)
    \/ Uninstall
    \/ UninstallFailed
    \/ UninstallSucceeded
    \/ Cleanup
    \/ StopClear
    \/ \E simulate \in BOOLEAN : K8sPause(simulate)
    \/ PauseCommand
    \/ \E simulate \in BOOLEAN, services \in ServiceChoices : K8sScale(simulate, services)
    \/ ScaleCommand
    \/ CheckScale
    \/ Interrupt
    \/ ProcessEnds

Spec == Init /\ [][Next]_vars

\* Calls of start alone, with the local registry, over every option list up to
\* MaxOpts entries and a few disable lists
DisableLists == { <<>>, <<<<"j">>>>, <<<<"p","i","p","e","l","i","n","e","s">>>>, <<<<"s","x">>>> }

StartServices ==
    \E simulate \in BOOLEAN, name \in Names, namespace \in Namespaces,
       options \in OptionLists, disable \in DisableLists :
         K8sStart(simulate, name, namespace, <<Bare("local")>>, "", options, disable)

NextServices ==
    \/ StartServices
    \/ NamespaceProbe
    \/ NamespaceDelete
    \/ NamespaceCreate
    \/ WriteNamespaceStage
    \/ HelmRepo
    \/ WriteHelmStage
    \/ ConfigureRegistry
    \/ RegistryRun
    \/ WriteRegistryStage
    \/ HelmInstall
    \/ WriteDoneStage
    \/ Interrupt
    \/ ProcessEnds

SpecServices == Init /\ [][NextServices]_vars

\* Calls of start alone, with a registry given by its url, over two release names
IdentityNames == Names \cup {"mlrun-2"}

StartIdentity ==
    \E simulate \in BOOLEAN, name \in IdentityNames, namespace \in Namespaces :
         K8sStart(simulate, name, namespace, <<Bare("local"), KV("url", "reg.io:5000")>>,
                  "", <<>>, <<>>)

NextIdentity ==
    \/ StartIdentity
    \/ NamespaceProbe
    \/ NamespaceDelete
    \/ NamespaceCreate
    \/ WriteNamespaceStage
    \/ HelmRepo
    \/ WriteHelmStage
    \/ ConfigureRegistry
    \/ WriteRegistryStage
    \/ HelmInstall
    \/ WriteDoneStage
    \/ Interrupt
    \/ ProcessEnds

SpecIdentity == Init /\ [][NextIdentity]_vars

\* Calls of start with registry credentials, and of stop, on a cluster whose
\* namespace holds a registry-credentials secret the user made beforehand
InitUserSecret ==
    /\ fileExists = FALSE
    /\ env = EmptyDict
    /\ namespaces = Namespaces
    /\ releases = {}
    /\ secrets = Namespaces
    /\ container = FALSE
    /\ userSecrets = Namespaces
    /\ pc = "idle"
    /\ op = "none"
    /\ args = NoArgs
    /\ loc = NoLocals
    /\ trace = <<>>
    /\ result = "none"
    /\ exitCode = 0
    /\ installOk = FALSE
    /\ entryEmpty = FALSE

StartUserSecret ==
    \E simulate \in BOOLEAN, name \in Names, namespace \in Namespaces :
         K8sStart(simulate, name, namespace,
                  <<KV("username", "joe"), KV("password", "pw1"), KV("email", "joe@x")>>,
                  "", <<>>, <<>>)

NextUserSecret ==
    \/ StartUserSecret
    \/ NamespaceProbe
    \/ NamespaceDelete
    \/ NamespaceCreate
    \/ WriteNamespaceStage
    \/ HelmRepo
    \/ WriteHelmStage
    \/ ConfigureRegistry
    \/ SecretProbe
    \/ SecretDelete
    \/ SecretCreate
    \/ WriteRegistryStage
    \/ HelmInstall
    \/ WriteDoneStage
    \/ \E simulate \in BOOLEAN, cleanup \in BOOLEAN : K8sStop(simulate, cleanup)
    \/ Uninstall
    \/ UninstallFailed
    \/ UninstallSucceeded
    \/ Cleanup
    \/ StopClear
    \/ Interrupt
    \/ ProcessEnds

SpecUserSecret == InitUserSecret /\ [][NextUserSecret]_vars

\* Calls of start alone whose registry arguments name a secret
SecretArgChoices ==
    { <<KV("secret", "my-secret"), KV("url", "reg.io")>>,
      <<KV("secret", "my-secret")>>,
      <<Bare("docker"), KV("secret", "my-secret"), KV("url", "reg.io"),
        KV("username", "joe"), KV("password", "pw1")>>,
      <<Bare("local"), KV("secret", "my-secret")>>,
      <<Bare("local"), KV("secret", "my-secret"), KV("url", "reg.io:5000")>> }

StartExplicitSecret ==
    \E simulate \in BOOLEAN, name \in Names, namespace \in Namespaces,
       registry_args \in SecretArgChoices :
         K8sStart(simulate, name, namespace, registry_args, "", <<>>, <<>>)

NextExplicitSecret ==
    \/ StartExplicitSecret
    \/ NamespaceProbe
    \/ NamespaceDelete
    \/ NamespaceCreate
    \/ WriteNamespaceStage
    \/ HelmRepo
    \/ WriteHelmStage
    \/ ConfigureRegistry
    \/ RegistryRun
    \/ WriteRegistryStage
    \/ HelmInstall
    \/ WriteDoneStage
    \/ Interrupt
    \/ ProcessEnds

SpecExplicitSecret == Init /\ [][NextExplicitSecret]_vars

\* Calls of start alone with registry credentials, with and without the
\* accepted key server
StartServer ==
    \E simulate \in BOOLEAN, name \in Names, namespace \in Namespaces,
       registry_args \in
         { <<KV("server", "https://my.reg/v1/"), KV("username", "joe"),
             KV("password", "pw1"), KV("email", "joe@x")>>,
           <<KV("username", "joe"), KV("password", "pw1"), KV("email", "joe@x")>> } :
         K8sStart(simulate, name, namespace, registry_args, "", <<>>, <<>>)

NextServer ==
    \/ StartServer
    \/ NamespaceProbe
    \/ NamespaceDelete
    \/ NamespaceCreate
    \/ WriteNamespaceStage
    \/ HelmRepo
    \/ WriteHelmStage
    \/ ConfigureRegistry
    \/ SecretProbe
    \/ SecretDelete
    \/ SecretCreate
    \/ WriteRegistryStage
    \/ HelmInstall
    \/ WriteDoneStage
    \/ Interrupt
    \/ ProcessEnds

SpecServer == Init /\ [][NextServer]_vars

----------------------------------------------------------------------------
(* The command line: the auto-detecting start, the kubernetes command, and  *)
(* stop, uninstall, pause and scale pick a backend and call it (pc =        *)
(* "invoke").  The bodies of the docker and local backends are outside the  *)
(* model: a call of one is a single step with its effect on the record and  *)
(* its result, and the commands it runs are not traced.                     *)

\* shutil.which: the executables found on the search path
SearchPaths ==
    { {}, {"helm", "docker", "docker-compose"}, {"kubectl"},
      {"kubectl", "helm", "docker", "docker-compose"} }

\* mutant of K8sIsSupported: helm is not looked for
K8sIsSupportedKubectlOnly(which, rc) == "kubectl" \in which /\ rc = 0

\* K8sConfig.is_supported; rc is the exit code of kubectl version
K8sIsSupported(which, rc) == "kubectl" \in which /\ "helm" \in which /\ rc = 0

\* DockerConfig.is_supported; rc is the exit code of docker ps
DockerIsSupported(which, rc) == "docker" \in which /\ "docker-compose" \in which /\ rc = 0

\* mutant of LastDeployment: kubernetes when the record names no deployment
LastDeploymentK8s(deployment) == Or(deployment, Get(GetEnv, K_LAST, "kubernetes"))

\* deployment or BaseConfig(env_file).get_env().get("MLRUN_CONF_LAST_DEPLOYMENT", "")
LastDeployment(deployment) == Or(deployment, Get(GetEnv, K_LAST, ""))

deployment_modes == {"local", "docker", "kubernetes", "remote"}

\* mlsetup start [--force-local] [--simulate] [--key value ...]: a remote
\* service is detected, or the backends are probed.  extra tells whether the
\* extra arguments give every parameter DockerConfig.start requires.
CliStart ==
    /\ pc = "idle"
    /\ \E simulate \in BOOLEAN, force_local \in BOOLEAN, which \in SearchPaths,
          v3io \in {"", "key"}, extra \in BOOLEAN :
         /\ args' = [simulate |-> simulate, force_local |-> force_local,
                     which |-> which, v3io |-> v3io, extra |-> extra,
                     deployment |-> "", cleanup |-> FALSE, services |-> <<>>,
                     registry_args |-> <<>>]
         /\ IF ~force_local /\ (v3io # "" \/ Get(GetEnv, K_LAST, "") = "remote")
            THEN Return
            ELSE pc' = "k8s_supported" /\ result' = "running" /\ exitCode' = 0
    /\ op' = "cli_start"
    /\ loc' = NoLocals
    /\ trace' = <<>>
    /\ entryEmpty' = (GetEnv = EmptyDict)
    /\ UnchangedCluster /\ UnchangedFile /\ UNCHANGED installOk

\* mlsetup kubernetes [-r registry_args] [--simulate]
CliKubernetes ==
    /\ pc = "idle"
    /\ \E simulate \in BOOLEAN, which \in SearchPaths,
          registry_args \in {<<Bare("local")>>,
                             <<KV("secret", "my-secret"), KV("url", "reg.io")>>} :
         args' = [simulate |-> simulate, force_local |-> FALSE,
                  which |-> which, v3io |-> "", extra |-> FALSE,
                  deployment |-> "kubernetes", cleanup |-> FALSE, services |-> <<>>,
                  registry_args |-> registry_args]
    /\ op' = "cli_kubernetes"
    /\ pc' = "k8s_supported" /\ result' = "running" /\ exitCode' = 0
    /\ loc' = NoLocals
    /\ trace' = <<>>
    /\ entryEmpty' = (GetEnv = EmptyDict)
    /\ UnchangedCluster /\ UnchangedFile /\ UNCHANGED installOk

\* config.is_supported() of K8sConfig: which kubectl, which helm, kubectl version
ProbeK8s ==
    /\ pc = "k8s_supported"
    /\ \E o \in Popen(Failures \cup {Outcome(0, Cluster)}) :
         LET probed == "kubectl" \in args.which /\ "helm" \in args.which
             rc == IF probed THEN o.rc ELSE 0
         IN  /\ IF probed
                THEN do_popen("kubectl_version", <<"kubectl", "version">>, o)
                ELSE UnchangedCluster /\ UNCHANGED trace
             /\ IF K8sIsSupported(args.which, rc)
                THEN /\ Goto("invoke")
                     /\ loc' = [backend |-> "kubernetes", method |-> "start"] @@ NoLocals
                ELSE /\ loc' = [NoLocals EXCEPT !.returncode = rc]
                     /\ IF op = "cli_kubernetes"
                        THEN SystemExit(1)
                        ELSE Goto("docker_supported")
    /\ UnchangedFile /\ UNCHANGED <<op, args, installOk, entryEmpty>>

\* config.is_supported() of DockerConfig, and LocalConfig when it fails
ProbeDocker ==
    /\ pc = "docker_supported"
    /\ \E o \in Popen(Failures \cup {Outcome(0, Cluster)}) :
         LET probed == "docker" \in args.which /\ "docker-compose" \in args.which
             rc == IF probed THEN o.rc ELSE 0
         IN  /\ IF probed
                THEN do_popen("docker_ps", <<"docker", "ps">>, o)
                ELSE UnchangedCluster /\ UNCHANGED trace
             /\ loc' = [backend |-> IF DockerIsSupported(args.which, rc)
                                    THEN "docker" ELSE "local",
                        method |-> "start"]
                       @@ [NoLocals EXCEPT !.returncode = rc]
    /\ Goto("invoke")
    /\ UnchangedFile /\ UNCHANGED <<op, args, installOk, entryEmpty>>

\* mlsetup stop | uninstall | pause | scale [-d deployment]
CliLifecycle(command) ==
    /\ pc = "idle"
    /\ \E deployment \in {"", "kubernetes", "local", "k8s"},
          cleanup \in (IF command = "stop" THEN BOOLEAN ELSE {command = "uninstall"}),
          services \in (IF command = "scale" THEN ServiceChoices ELSE {<<>>}) :
         /\ args' = [simulate |-> FALSE, force_local |-> FALSE,
                     which |-> {}, v3io |-> "", extra |-> FALSE,
                     deployment |-> deployment, cleanup |-> cleanup,
                     services |-> services, registry_args |-> <<>>]
         /\ LET d == LastDeployment(deployment)
            IN  IF d = ""
                THEN /\ Return
                     /\ loc' = NoLocals
                     /\ trace' = <<Entry("log", "cannot determine current deployment type",
                                         <<>>, EmptyDict)>>
                ELSE IF d \notin deployment_modes
                THEN /\ Raise("KeyError")
                     /\ loc' = NoLocals
                     /\ trace' = <<>>
                ELSE /\ pc' = "invoke" /\ result' = "running" /\ exitCode' = 0
                     /\ loc' = [backend |-> d,
                                method |-> IF command = "uninstall" THEN "stop" ELSE command]
                               @@ NoLocals
                     /\ trace' = <<>>
    /\ op' = "cli_" \o command
    /\ entryEmpty' = (GetEnv = EmptyDict)
    /\ UnchangedCluster /\ UnchangedFile /\ UNCHANGED installOk

\* config.start / stop / pause / scale of K8sConfig
InvokeK8s ==
    /\ pc = "invoke"
    /\ loc.backend = "kubernetes"
    /\ CASE loc.method = "start" ->
               K8sStart(args.simulate, "mlrun-ce", "mlrun", args.registry_args, "", <<>>, <<>>)
         [] loc.method = "stop" -> K8sStop(FALSE, args.cleanup)
         [] loc.method = "pause" -> K8sPause(FALSE)
         [] loc.method = "scale" -> K8sScale(FALSE, args.services)

\* config.start / stop / pause / scale of DockerConfig, LocalConfig or RemoteConfig
OtherBackend ==
    /\ pc = "invoke"
    /\ loc.backend # "kubernetes"
    /\ LET started == [k \in {K_DBPATH, K_MOCK, K_LAST} |->
                          CASE k = K_DBPATH -> "http://localhost:8080"
                            [] k = K_MOCK -> IF loc.backend = "local" THEN "auto" ELSE ""
                            [] k = K_LAST -> loc.backend]
           unchanged == UnchangedFile /\ UNCHANGED <<trace, installOk>>
       IN  CASE loc.method = "start" /\ loc.backend = "docker" ->
                  IF ~args.extra
                  THEN Raise("TypeError") /\ unchanged
                  ELSE /\ set_env(started) /\ UNCHANGED installOk
                       /\ \/ Return
                          \/ ~args.simulate /\ \E rc \in FailCodes : SystemExit(rc)
             [] loc.method = "start" /\ loc.backend = "local" ->
                  \/ set_env(started) /\ UNCHANGED installOk /\ Return
                  \/ ~args.simulate /\ unchanged /\ \E rc \in FailCodes : SystemExit(rc)
             [] loc.method = "stop" /\ loc.backend \in {"docker", "local"} ->
                  \/ clear_env(args.cleanup, {}) /\ Return
                  \/ /\ loc.backend = "docker"
                     /\ set_env([k \in {K_DBPATH} |-> ""]) /\ UNCHANGED installOk
                     /\ \E rc \in FailCodes : SystemExit(rc)
                  \/ loc.backend = "local" /\ unchanged /\ Raise("TypeError")
             [] OTHER -> Return /\ unchanged
    /\ UnchangedCluster /\ UNCHANGED <<op, args, loc, entryEmpty>>

NextCli ==
    \/ CliStart
    \/ CliKubernetes
    \/ ProbeK8s
    \/ ProbeDocker
    \/ \E command \in {"stop", "uninstall", "pause", "scale"} : CliLifecycle(command)
    \/ InvokeK8s
    \/ OtherBackend
    \/ NamespaceProbe
    \/ NamespaceDelete
    \/ NamespaceCreate
    \/ WriteNamespaceStage
    \/ HelmRepo
    \/ WriteHelmStage
    \/ ConfigureRegistry
    \/ RegistryRun
    \/ SecretProbe
    \/ SecretDelete
    \/ SecretCreate
    \/ WriteRegistryStage
    \/ HelmInstall
    \/ WriteDoneStage
    \/ Uninstall
    \/ UninstallFailed
    \/ UninstallSucceeded
    \/ Cleanup
    \/ StopClear
    \/ PauseCommand
    \/ ScaleCommand
    \/ CheckScale
    \/ Interrupt
    \/ ProcessEnds

SpecCli == Init /\ [][NextCli]_vars

----------------------------------------------------------------------------
(* Claims *)

\* C1: in every step of a K8sConfig.start call the stage persisted in the record
\* does not decrease, whatever stage the call found there.
C1_MonotonicStage == [][op' = "start" => Stage' >= Stage]_vars

\* the call has ended by itself: it returned, exited or raised
Ended == pc = "done"

Published == K_DBPATH \in DOMAIN GetEnv

\* C2 (as stated), where a stop that found stage DONE has ended: MLRUN_DBPATH is
\* present in the record if and only if helm install has returned 0 since the
\* record was last deleted.
C2_PublishedIffInstalled ==
    (Ended /\ op = "stop" /\ loc.stage = K8sStages_done) => (Published <=> installOk)

\* C2 (amended): in every state, MLRUN_DBPATH is present in the record only if helm
\* install has returned 0 since the record was last deleted.
C2_PublishedOnlyIfInstalled == Published => installOk

C2_Witness ==
    /\ Ended /\ op = "start" /\ result = "returned" /\ ~args.simulate
    /\ Published /\ installOk

\* C3: when a start call has aborted (SystemExit or ValueError), which it does only
\* before helm install has returned success, MLRUN_DBPATH is absent or "".
C3_AbortLeavesNoDbPath ==
    (Ended /\ op = "start" /\ result \in {"SystemExit", "ValueError"}) => DbPath = ""

\* C4: the persisted stage implies the side effects of its checkpoints: from
\* NAMESPACE on the recorded namespace exists, the recorded registry container and
\* registry secret exist from REGISTRY on, and at DONE the recorded release is installed.
C4_StageImpliesSideEffects ==
    LET ns == Get(GetEnv, K_NS, "")
    IN  /\ Stage >= K8sStages_namespace => ns \in namespaces
        /\ (Stage >= K8sStages_registry /\ Get(GetEnv, K_REGISTRY, "") # "") => container
        /\ (Stage >= K8sStages_registry /\ Get(GetEnv, K_SECRET, "") # "") => ns \in secrets
        /\ Stage = K8sStages_done => <<ns, Get(GetEnv, K_HELM, "")>> \in releases

\* what a call did, in order: the kinds of the commands it issued and "clear_env"
\* for the clearing of the record (set_env writes are left out)
RECURSIVE Did(_)
Did(tr) ==
    IF tr = <<>> THEN <<>>
    ELSE LET e == tr[Len(tr)]
             front == Did(SubSeq(tr, 1, Len(tr) - 1))
         IN  CASE e.t \in {"exec", "dummy"} -> Append(front, e.kind)
               [] e.t = "clear_env" -> Append(front, "clear_env")
               [] OTHER -> front

IsPrefix(a, b) == Len(a) <= Len(b) /\ a = SubSeq(b, 1, Len(a))

C5_Order ==
    <<"helm_uninstall">>
    \o (IF loc.reg_secret # "" THEN <<"delete_secret">> ELSE <<>>)
    \o (IF loc.registry # "" THEN <<"docker_rm">> ELSE <<>>)
    \o <<"delete_pods", "delete_namespace", "clear_env">>

\* C5: a stop with cleanup that found stage DONE does, in this order and nothing
\* else: helm uninstall, delete of the recorded secret, removal of the recorded
\* registry container, pod delete, namespace delete, clearing of the record; when
\* it returns it has done all of them.
C5_TeardownOrder ==
    (op = "stop" /\ args.cleanup /\ loc.stage = K8sStages_done) =>
        /\ IsPrefix(Did(trace), C5_Order)
        /\ (Ended /\ result = "returned") => Did(trace) = C5_Order

C5_Witness ==
    /\ Ended /\ op = "stop" /\ args.cleanup /\ loc.stage = K8sStages_done
    /\ result = "returned" /\ ~args.simulate
    /\ loc.reg_secret # "" /\ loc.registry # ""
    /\ ~fileExists

\* C6: once the helm uninstall of a stop has returned non-zero, the call issues no
\* cleanup command, does not clear the record and leaves the stage at DONE; and a
\* stop writes the stage only after an uninstall that returned 0.
C6_UninstallFailureStops ==
    op = "stop" =>
        /\ loc.returncode # 0 =>
              /\ Did(trace) = <<"helm_uninstall">>
              /\ fileExists /\ Stage = K8sStages_done
        /\ \A i \in 1..Len(trace) :
              (trace[i].t = "set_env" /\ K_STAGE \in DOMAIN trace[i].set) =>
                 /\ trace[i].set[K_STAGE] = IntToStr(K8sStages_registry)
                 /\ loc.returncode = 0
                 /\ \E j \in 1..(i - 1) : trace[j].kind = "helm_uninstall"

C6_Witness ==
    /\ Ended /\ op = "stop" /\ args.cleanup /\ loc.returncode # 0
    /\ result = "SystemExit" /\ loc.reg_secret # ""

\* C7: a stop whose helm uninstall returned c # 0 ends with MLRUN_DBPATH = "" in
\* the record and with exit code c.
C7_UninstallFailureBlanksDbPath ==
    (Ended /\ op = "stop" /\ loc.returncode # 0) =>
        /\ Published /\ DbPath = ""
        /\ result = "SystemExit" /\ exitCode = loc.returncode

C7_Witness ==
    /\ Ended /\ op = "stop" /\ loc.returncode = 2 /\ exitCode = 2
    /\ Published /\ DbPath = ""

\* C8: a start called with a registry argument key outside valid_registry_args
\* spawns no external process and writes nothing to the record.
C8_IllegalRegistryArgFailsFirst ==
    (op = "start" /\ IllegalRegistryArg(list2dict(args.registry_args, "kind", None))) =>
        Spawned = {} /\ Writes = {}

\* C10: a start that found the record empty, was given kind=local and returned
\* leaves stage 9, MLRUN_DBPATH = http://<external_addr or localhost>:30070,
\* last deployment kubernetes and no registry secret key.
C10_FreshInstall ==
    (/\ Ended /\ op = "start" /\ result = "returned" /\ entryEmpty
     /\ Get(list2dict(args.registry_args, "kind", None), "kind", "") = "local") =>
        /\ fileExists
        /\ Get(env, K_STAGE, "") = "9"
        /\ Get(env, K_DBPATH, "") =
              (IF args.external_addr = "" THEN "http://localhost:30070"
               ELSE "http://" \o args.external_addr \o ":30070")
        /\ Get(env, K_LAST, "") = "kubernetes"
        /\ K_SECRET \notin DOMAIN env

C10_Witness ==
    /\ Ended /\ op = "start" /\ result = "returned" /\ entryEmpty /\ ~args.simulate
    /\ Get(list2dict(args.registry_args, "kind", None), "kind", "") = "local"
    /\ args.external_addr # ""
    /\ Get(env, K_STAGE, "") = "9"

\* C9: a start given an option or disable entry that is neither a name of
\* optional_services nor a key of service_map has raised ValueError with no command
\* issued and nothing written; otherwise every entry e is translated to
\* service_map[first letter of e] ".enabled=true" (options) or ".enabled=false" (disable).
C9_Known ==
    optional_services \cup { <<"s">>, <<"m">>, <<"j">>, <<"p">> }

C9_FailFastOnUnknownService ==
    op = "start" =>
        IF \/ \E i \in 1..Len(args.options) : args.options[i] \notin C9_Known
           \/ \E i \in 1..Len(args.disable) : args.disable[i] \notin C9_Known
        THEN /\ Ended /\ result = "ValueError"
             /\ trace = <<>>
        ELSE /\ result # "ValueError"
             /\ Len(loc.service_options) = Len(args.options)
             /\ Len(loc.service_disable) = Len(args.disable)
             /\ \A i \in 1..Len(args.options) :
                   loc.service_options[i] = service_map[args.options[i][1]] \o ".enabled=true"
             /\ \A i \in 1..Len(args.disable) :
                   loc.service_disable[i] = service_map[args.disable[i][1]] \o ".enabled=false"

C9_Witness ==
    /\ Ended /\ op = "start" /\ result = "ValueError"
    /\ args.options = << <<"s","p","a","r","k">> >>
    /\ args.disable = << <<"s","x">> >>
    /\ fileExists

\* C11: in a start whose namespace probe reported the namespace and whose overwrite
\* prompt was answered n, no namespace delete and no namespace create is issued,
\* the step after the probe writes stage NAMESPACE to the record without raising,
\* and the step after that is the first helm repo command.
C11_OverwriteRefused ==
    (op = "start" /\ loc.exists /\ loc.text = "n") =>
        /\ Issued("delete_namespace") = {} /\ Issued("create_namespace") = {}
        /\ Len(trace) = 1 => (pc = "write_ns" /\ result = "running")
        /\ Len(trace) >= 2 =>
              /\ trace[2].t = "set_env"
              /\ trace[2].set[K_STAGE] = IntToStr(K8sStages_namespace)
        /\ Len(trace) = 2 => (pc = "helm_repo_add" /\ result = "running")
        /\ Len(trace) >= 3 => trace[3].kind = "helm_repo_add"

\* a repeated start (an install has succeeded before) on a live cluster
C11_Witness ==
    /\ op = "start" /\ loc.exists /\ loc.text = "n" /\ ~args.simulate
    /\ installOk /\ args.namespace \in namespaces
    /\ pc = "helm_repo_list"

\* C12: when the kubectl create namespace of a start has returned c # 0, the call
\* has ended with SystemExit(c) unless kubectl's error was AlreadyExists, and
\* with AlreadyExists it has not ended and goes on to write stage NAMESPACE.
C12_RaceTolerantCreate ==
    (/\ op = "start" /\ trace # <<>>
     /\ trace[Len(trace)].kind = "create_namespace" /\ loc.returncode # 0) =>
        IF loc.stderr = "AlreadyExists"
        THEN pc = "write_ns" /\ result = "running"
        ELSE Ended /\ result = "SystemExit" /\ exitCode = loc.returncode

\* C13: a start that found the record at stage DONE with the recorded release
\* installed (the stage still stands in the record until the call's first write)
\* neither issues nor is about to issue a namespace delete or a namespace create,
\* the commands of a stage already recorded as reached.
C13_ResumeSkipsReachedStages ==
    (/\ op = "start" /\ Writes = {} /\ Stage = K8sStages_done
     /\ <<args.namespace, args.name>> \in releases) =>
        /\ pc \notin {"ns_delete", "ns_create"}
        /\ Issued("delete_namespace") = {} /\ Issued("create_namespace") = {}

\* C14: a stop called on a record whose stage is NONE returns in that same step,
\* having issued no command and written nothing: the record and the cluster are
\* as they were, with or without cleanup.
C14_StopAtNoneIsNoop ==
    [][(pc = "idle" /\ op' = "stop" /\ Stage = K8sStages_none) =>
          /\ pc' = "done" /\ result' = "returned" /\ exitCode' = 0
          /\ trace' = <<>>
          /\ fileExists' = fileExists /\ env' = env
          /\ namespaces' = namespaces /\ releases' = releases
          /\ secrets' = secrets /\ container' = container]_vars

\* a stop with cleanup that found no stage, on a cluster that holds a namespace
C14_Witness ==
    /\ Ended /\ op = "stop" /\ args.cleanup /\ ~args.simulate
    /\ Stage = K8sStages_none /\ result = "returned" /\ trace = <<>>
    /\ namespaces # {}

\* C15: a stop issues a secret delete or a registry container removal only with
\* cleanup and a stage read of REGISTRY or later, and a pod delete or a namespace
\* delete only with cleanup and a stage read of NAMESPACE or later; without
\* cleanup it issues none of the four.
C15_ScopedTeardown ==
    op = "stop" =>
        /\ (Issued("delete_secret") \cup Issued("docker_rm") # {}) =>
              (args.cleanup /\ loc.stage >= K8sStages_registry)
        /\ (Issued("delete_pods") \cup Issued("delete_namespace") # {}) =>
              (args.cleanup /\ loc.stage >= K8sStages_namespace)

\* a stop without cleanup at DONE, with a secret and a registry on record, has
\* returned after the uninstall and the clearing alone
C15_Witness ==
    /\ Ended /\ op = "stop" /\ ~args.cleanup /\ ~args.simulate
    /\ loc.stage = K8sStages_done /\ loc.reg_secret # "" /\ loc.registry # ""
    /\ result = "returned"
    /\ Did(trace) = <<"helm_uninstall", "clear_env">>

\* the commands a stop with cleanup owes for what it read at entry, then the clearing
C16_Owed ==
    (IF loc.helm_name # "" /\ loc.stage >= K8sStages_done THEN <<"helm_uninstall">> ELSE <<>>)
    \o (IF loc.stage >= K8sStages_registry /\ loc.reg_secret # ""
        THEN <<"delete_secret">> ELSE <<>>)
    \o (IF loc.stage >= K8sStages_registry /\ loc.registry # ""
        THEN <<"docker_rm">> ELSE <<>>)
    \o <<"delete_pods", "delete_namespace", "clear_env">>

\* C16: a stop with cleanup in which a cleanup command (secret delete, registry
\* container removal, pod delete, namespace delete) has returned non-zero does not
\* abort, and when it has ended it has returned having issued every cleanup
\* command it owed and deleted the record.
C16_BestEffortCleanup ==
    (op = "stop" /\ args.cleanup /\ loc.failed # {}) =>
        /\ result \in {"running", "returned"}
        /\ IsPrefix(Did(trace), C16_Owed)
        /\ Ended => (Did(trace) = C16_Owed /\ ~fileExists)

\* all four cleanup commands failed and the stop returned
C16_Witness ==
    /\ Ended /\ op = "stop" /\ args.cleanup /\ ~args.simulate
    /\ loc.failed = {"stop_del_secret", "stop_rm_registry", "stop_del_pods", "stop_del_ns"}
    /\ result = "returned" /\ ~fileExists
    /\ loc.namespace \in namespaces

\* the keys of the connection, which a stop without cleanup removes
C17_Removed == {K_DBPATH, K_LAST, K_MOCK}

\* a stop that read stage NAMESPACE or later: it exits only on a failed uninstall,
\* and once it has returned its last act was the clearing
C17_EndsByClearing ==
    (op = "stop" /\ loc.stage >= K8sStages_namespace) =>
        /\ result = "SystemExit" => loc.returncode # 0
        /\ result \in {"running", "returned", "SystemExit"}
        /\ (Ended /\ result = "returned") =>
              /\ trace[Len(trace)].t = "clear_env"
              /\ IF args.cleanup
                 THEN ~fileExists /\ GetEnv = EmptyDict
                 ELSE /\ fileExists
                      /\ DOMAIN env \cap C17_Removed = {}
                      /\ Get(env, K_STAGE, "") =
                            (IF loc.stage >= K8sStages_done /\ loc.helm_name # ""
                             THEN IntToStr(K8sStages_registry) ELSE IntToStr(loc.stage))
                      /\ Get(env, K_NS, "") = loc.namespace
                      /\ Get(env, K_HELM, "") = loc.helm_name
                      /\ Get(env, K_SECRET, "") = loc.reg_secret
                      /\ Get(env, K_REGISTRY, "") = loc.registry

\* the clearing step of a stop without cleanup removes the three connection keys
\* and nothing else
C17_ClearingStep ==
    (pc = "stop_clear" /\ pc' = "done" /\ ~args.cleanup) =>
        /\ DOMAIN env' = DOMAIN env \ C17_Removed
        /\ \A k \in DOMAIN env' : env'[k] = env[k]

\* C17: every stop that read stage NAMESPACE or later and did not exit on a failed
\* uninstall ends by clearing the record: with cleanup the file is deleted; without
\* cleanup exactly MLRUN_DBPATH, MLRUN_CONF_LAST_DEPLOYMENT and
\* MLRUN_MOCK_NUCLIO_DEPLOYMENT go, while the stage (REGISTRY after an uninstall
\* from DONE), the namespace, the release name and the registry keys stay as read.
C17_RecordClearingByScope == []C17_EndsByClearing /\ [][C17_ClearingStep]_vars

C17_Witness ==
    /\ Ended /\ op = "stop" /\ ~args.cleanup /\ ~args.simulate
    /\ loc.stage = K8sStages_done /\ result = "returned"
    /\ loc.reg_secret # "" /\ K_SECRET \in DOMAIN env
    /\ env[K_STAGE] = "3" /\ K_DBPATH \notin DOMAIN env

\* C18: a pause or a scale that read no namespace from the record (key absent or
\* empty) issues no kubectl scale command and does not return normally.
C18_NoNamespaceNoScale ==
    (op \in {"pause", "scale"} /\ loc.namespace = "") =>
        /\ Issued("scale") = {}
        /\ result # "returned"

\* the deployments a pause or a scale targets, and the count it asks for each
C19_Targets ==
    IF op = "scale" /\ args.services # EmptyDict
    THEN DOMAIN args.services
    ELSE {scaled_deplyoments[i] : i \in 1..Len(scaled_deplyoments)}

C19_Requested(d) ==
    IF op = "pause" THEN 0 ELSE StrToInt(Get(args.services, d, "1"))

\* C19: when a pause or a scale has returned, the status poll it made after its
\* scale commands reported, for every deployment it targeted, exactly the
\* replica count it asked for.
C19_ReturnedMeansScaled ==
    (Ended /\ op \in {"pause", "scale"} /\ result = "returned") =>
        /\ Issued("get_deployments") # {}
        /\ \A d \in C19_Targets : loc.status[d] = C19_Requested(d)

\* C20: a pause or a scale (not simulated) whose scale commands succeeded and
\* which has made its status poll does not end with an uncaught TypeError,
\* whether or not that first poll was satisfied.
C20_PollingDoesNotCrash ==
    (op \in {"pause", "scale"} /\ ~args.simulate /\ Issued("get_deployments") # {}) =>
        result # "TypeError"

\* the stage that stands in the record when a command of start fails
C21_StageAtFailure(kind) ==
    CASE kind \in DOMAIN helm_commands -> K8sStages_namespace
      [] kind \in {"docker_run", "delete_secret", "create_secret"} -> K8sStages_helm
      [] kind = "helm_install" -> K8sStages_registry
      [] OTHER -> Stage

\* C21: when the last command of a start (namespace delete, namespace create
\* failing on something else than AlreadyExists, a helm repo command, docker run,
\* secret delete, secret create, helm install) has returned c # 0, the call has
\* ended with SystemExit(c); it issued a namespace delete only as its overwrite
\* step right after the probe; the record holds stage NAMESPACE after a helm
\* repo failure, HELM after a registry failure, REGISTRY after an install
\* failure; and no write of the call held stage DONE or MLRUN_DBPATH.
C21_FailureAbortsWithCode ==
    (/\ op = "start" /\ trace # <<>>
     /\ trace[Len(trace)].t = "exec"
     /\ trace[Len(trace)].kind \notin {"get_namespace", "get_secret"}
     /\ loc.returncode # 0
     /\ ~(trace[Len(trace)].kind = "create_namespace" /\ loc.stderr = "AlreadyExists")) =>
        /\ Ended /\ result = "SystemExit" /\ exitCode = loc.returncode
        /\ \A i \in Issued("delete_namespace") : i = 2
        /\ Stage = C21_StageAtFailure(trace[Len(trace)].kind)
        /\ \A i \in Writes :
              /\ K_DBPATH \notin DOMAIN trace[i].set
              /\ trace[i].set[K_STAGE] # IntToStr(K8sStages_done)

\* helm install failed with exit code 2 after a secret was created
C21_Witness ==
    /\ Ended /\ op = "start" /\ ~args.simulate
    /\ trace # <<>>
    /\ trace[Len(trace)].kind = "helm_install"
    /\ loc.returncode = 2 /\ exitCode = 2
    /\ Issued("create_secret") # {}
    /\ Stage = K8sStages_registry

\* C22: no step of a start changes MLRUN_CONF_HELM_DEPLOYMENT or
\* MLRUN_CONF_K8S_NAMESPACE of a record that names an installed release (no stop
\* runs in between).
C22_IdentityImmutable ==
    [][(/\ K_HELM \in DOMAIN GetEnv /\ K_NS \in DOMAIN GetEnv
        /\ <<GetEnv[K_NS], GetEnv[K_HELM]>> \in releases
        /\ op' = "start") =>
          /\ Get(env', K_HELM, "") = GetEnv[K_HELM]
          /\ Get(env', K_NS, "") = GetEnv[K_NS]]_vars

\* C23: the record names a registry secret only if a start created it: the
\* registry-credentials secret of the recorded namespace is not one the user made.
C23_RecordsOnlyCreatedSecrets ==
    Get(GetEnv, K_SECRET, "") # "" => Get(GetEnv, K_NS, "") \notin userSecrets

\* the registry arguments of the running start, as configure_registry reads them
C24_Args == list2dict(args.registry_args, "kind", None)

\* configure_registry has run (start calls it after its second write of the record)
C24_Configured == Cardinality(Writes) >= 2 /\ pc # "registry"

C24_ExplicitSecret ==
    /\ Issued("create_secret") = {} /\ Issued("delete_secret") = {}
    /\ Issued("get_secret") = {} /\ Issued("docker_run") = {}
    /\ C24_Configured =>
          IF Get(C24_Args, "url", "") = ""
          THEN /\ Ended /\ result = "ValueError"
               /\ trace[Len(trace)].t = "set_env"
          ELSE /\ result # "ValueError"
               /\ loc.pull_secret = Get(C24_Args, "secret", "")
               /\ loc.registry_url = Get(C24_Args, "url", "")

\* C24 (as stated): a start whose registry arguments hold a non-empty secret,
\* whatever the kind, issues no secret create, secret delete or docker run; its
\* configure_registry raises ValueError with no command issued when url is
\* missing and else returns the given secret and url.
C24_ExplicitSecretAnyKind ==
    (op = "start" /\ Get(C24_Args, "secret", "") # "") => C24_ExplicitSecret

\* C24 (amended): the same for registry arguments whose kind is not local.
C24_ExplicitSecretNotLocal ==
    (/\ op = "start" /\ Get(C24_Args, "secret", "") # ""
     /\ Get(C24_Args, "kind", "docker") # "local") => C24_ExplicitSecret

\* a start given kind docker, a secret, a url and credentials is about to install
C24_Witness ==
    /\ op = "start" /\ ~args.simulate /\ pc = "helm_install"
    /\ Get(C24_Args, "kind", "") = "docker"
    /\ Get(C24_Args, "username", "") # ""
    /\ loc.pull_secret = "my-secret"

\* the registry passwords a run can be given: as an argument, in the
\* environment, or typed at the hidden prompt
C25_Passwords == {"pw1", "envpw", Prompted.password}

\* the command lines the tool has printed (do_popen echoes a simulated command
\* after "DUMMY: ")
C25_Printed == {i \in DOMAIN trace : trace[i].t = "dummy"}

\* C25: nothing that start prints contains the registry password, so that two
\* runs differing only in the password print the same.
C25_PasswordNeverPrinted ==
    op = "start" =>
        \A i \in C25_Printed :
            \A j \in DOMAIN trace[i].argv : trace[i].argv[j] \notin C25_Passwords

\* C26: when start has run docker run for a local registry while a container
\* named docker-registry exists, it goes on to record the registry stage with
\* url <host-ip>:5000 and an empty pull secret instead of aborting.
C26_LocalRegistryReused ==
    (/\ op = "start" /\ ~args.simulate /\ trace # <<>>
     /\ trace[Len(trace)].kind = "docker_run" /\ container) =>
        /\ pc = "write_reg" /\ result # "SystemExit"
        /\ loc.pull_secret = ""
        /\ \E ip \in HostIps : loc.registry_url = ip \o ":5000"

\* kubectl or helm is missing, or kubectl version failed
C27_K8sUnusable(which, rc) ==
    "kubectl" \notin which \/ "helm" \notin which \/ rc # 0

\* the steps of the selection: Kubernetes found unsupported by the
\* auto-detecting start leads to the docker probe without failing; the docker
\* probe leads to one call of start, of docker when it is supported and else
\* of local; a called backend is not followed by another probe or call, and
\* K8sConfig.start is only entered when Kubernetes was found supported; the
\* kubernetes command ends with exit code 1 having issued nothing but
\* kubectl version.
C27_Selection ==
    /\ (pc = "k8s_supported" /\ pc' # "idle"
        /\ C27_K8sUnusable(args.which, loc'.returncode)) =>
            IF op = "cli_start"
            THEN pc' = "docker_supported" /\ result' = "running"
            ELSE /\ pc' = "done" /\ result' = "SystemExit" /\ exitCode' = 1
                 /\ \A i \in DOMAIN trace' : trace'[i].kind = "kubectl_version"
    /\ (pc = "docker_supported" /\ pc' # "idle") =>
            /\ pc' = "invoke" /\ loc'.method = "start"
            /\ loc'.backend =
                  IF /\ {"docker", "docker-compose"} \subseteq args.which
                     /\ loc'.returncode = 0
                  THEN "docker" ELSE "local"
    /\ (pc = "invoke" /\ op = "cli_start") =>
            /\ pc' \notin {"k8s_supported", "docker_supported", "invoke"}
            /\ op' = "start" =>
                  loc.backend = "kubernetes" /\ {"kubectl", "helm"} \subseteq args.which

\* C27 (as stated): whenever kubectl or helm is missing, the auto-detecting
\* start goes on to probe the backends, and the selection steps are as above.
C27_BackendSelection ==
    [][/\ C27_Selection
       /\ (pc = "idle" /\ op' = "cli_start"
           /\ C27_K8sUnusable(args'.which, 0)) => pc' = "k8s_supported"]_vars

\* C27 (amended): the same when no remote service is detected (no
\* V3IO_ACCESS_KEY in the environment and no remote last deployment, or
\* --force-local); a detected remote service ends the command at once.
C27_BackendSelectionUnlessRemote ==
    [][/\ C27_Selection
       /\ (pc = "idle" /\ op' = "cli_start"
           /\ C27_K8sUnusable(args'.which, 0)) =>
              IF ~args'.force_local
                 /\ (args'.v3io # "" \/ Get(GetEnv, K_LAST, "") = "remote")
              THEN pc' = "done" /\ result' = "returned"
              ELSE pc' = "k8s_supported"]_vars

\* kubectl is missing and docker works: the auto-detecting start is about to
\* call the docker backend
C27_Witness ==
    /\ op = "cli_start" /\ pc = "invoke"
    /\ "kubectl" \notin args.which /\ args.v3io = ""
    /\ loc.backend = "docker"

C28_Commands == {"cli_stop", "cli_uninstall", "cli_pause", "cli_scale"}

\* C28: stop, uninstall, pause and scale without -d on a record that names no
\* last deployment report that the deployment type cannot be determined and
\* return with exit status 0, having issued no command and left the record and
\* the cluster as they were; with a last deployment in the record, the backend
\* it names is called, and for kubernetes the method of the command.
C28_StateNotFound ==
    [][/\ (pc = "idle" /\ op' \in C28_Commands /\ args'.deployment = "") =>
             IF Get(GetEnv, K_LAST, "") = ""
             THEN /\ pc' = "done" /\ result' = "returned" /\ exitCode' = 0
                  /\ Len(trace') = 1 /\ trace'[1].t = "log"
                  /\ trace'[1].kind = "cannot determine current deployment type"
                  /\ env' = env /\ fileExists' = fileExists
                  /\ Cluster' = Cluster
             ELSE /\ pc' = "invoke" /\ loc'.backend = Get(GetEnv, K_LAST, "")
                  /\ trace' = <<>>
       /\ (pc = "invoke" /\ op \in C28_Commands /\ loc.backend = "kubernetes"
           /\ pc' # "idle") =>
             op' = CASE op = "cli_stop" -> "stop"
                     [] op = "cli_uninstall" -> "stop"
                     [] op = "cli_pause" -> "pause"
                     [] op = "cli_scale" -> "scale"
       /\ (pc = "invoke" /\ op \in C28_Commands /\ loc.backend # "kubernetes") =>
             op' \in {op, "none"}]_vars

\* pause without -d has returned on a record that a stop left without its
\* last deployment
C28_Witness ==
    /\ op = "cli_pause" /\ args.deployment = ""
    /\ pc = "done" /\ result = "returned"
    /\ trace # <<>> /\ trace[1].t = "log"
    /\ fileExists /\ K_STAGE \in DOMAIN env /\ K_LAST \notin DOMAIN env

\* C29: an auto-detecting start given --force-local never calls K8sConfig.start.
C29_ForceLocalNeverKubernetes ==
    [][(op = "cli_start" /\ args.force_local) => op' # "start"]_vars

\* the place of a trace entry in the order of start: the commands of the
\* namespace step, the write of stage 1, the Helm repo commands, the write of
\* stage 2, the registry commands, the write of stage 3, the install, the
\* write of stage 9
C30_Rank(e) ==
    IF e.t \in {"exec", "dummy"}
    THEN CASE e.kind \in {"get_namespace", "delete_namespace", "create_namespace"} -> 0
           [] e.kind \in DOMAIN helm_commands -> 2
           [] e.kind \in {"docker_run", "get_secret", "delete_secret", "create_secret"} -> 4
           [] e.kind = "helm_install" -> 6
           [] OTHER -> 99
    ELSE IF e.t = "set_env" /\ K_STAGE \in DOMAIN e.set
    THEN CASE e.set[K_STAGE] = IntToStr(K8sStages_namespace) -> 1
           [] e.set[K_STAGE] = IntToStr(K8sStages_helm) -> 3
           [] e.set[K_STAGE] = IntToStr(K8sStages_registry) -> 5
           [] e.set[K_STAGE] = IntToStr(K8sStages_done) -> 7
           [] OTHER -> 99
    ELSE 99

C30_Before(j, r) == \E i \in 1..(j - 1) : C30_Rank(trace[i]) = r

\* C30: in a start on an empty record the trace is ordered by stage: every
\* write and command comes after the previous stage's write, each stage is
\* written once, stage 1 after the namespace probe, stage 2 after the three
\* Helm repo commands, stage 3 with the registry keys after the registry
\* commands, stage 9 right after an install that returned 0.
C30_StrictStageSequence ==
    (op = "start" /\ entryEmpty) =>
        \A j \in DOMAIN trace :
            LET r == C30_Rank(trace[j])
            IN  /\ r # 99
                /\ \A i \in 1..(j - 1) : C30_Rank(trace[i]) <= r
                /\ r % 2 = 1 => ~C30_Before(j, r)
                /\ r \in {2, 4, 6} => C30_Before(j, r - 1)
                /\ r = 1 => C30_Before(j, 0)
                /\ r = 3 => \A c \in DOMAIN helm_commands :
                              \E i \in 1..(j - 1) : trace[i].kind = c
                /\ r = 5 => /\ C30_Before(j, 3)
                            /\ \A setting \in DOMAIN loc.new_settings :
                                  "MLRUN_CONF_K8S_" \o setting \in DOMAIN trace[j].set
                /\ r = 7 => /\ C30_Rank(trace[j - 1]) = 6
                            /\ j = Len(trace) /\ loc.returncode = 0

\* a start on an empty record went through every stage, created the registry
\* secret and wrote stage 9
C30_Witness ==
    /\ op = "start" /\ entryEmpty /\ ~args.simulate
    /\ Ended /\ result = "returned"
    /\ Issued("create_namespace") # {} /\ Issued("create_secret") # {}
    /\ C30_Rank(trace[Len(trace)]) = 7

\* what check_k8s_resource_exist returned in the step just taken: start keeps
\* the answer for the namespace, and creates the secret when the answer for
\* the secret was false
C31_Returned ==
    IF pc = "ns_probe" THEN loc'.exists ELSE pc' # "sec_create"

\* C31: a probe of the namespace or of the secret answers false exactly when
\* kubectl get exited with 1 (true for 0, 2, 99, and for the 0 of simulate
\* mode), adds the one get command to the trace and leaves the cluster and
\* the record as they were.
C31_ExistenceProber ==
    [][(pc \in {"ns_probe", "sec_probe"} /\ pc' # "idle") =>
         /\ C31_Returned = (loc'.returncode # 1)
         /\ args.simulate => (loc'.returncode = 0 /\ C31_Returned)
         /\ Len(trace') = Len(trace) + 1
         /\ SubSeq(trace', 1, Len(trace)) = trace
         /\ trace'[Len(trace')].kind =
               (IF pc = "ns_probe" THEN "get_namespace" ELSE "get_secret")
         /\ trace'[Len(trace')].argv =
               (IF pc = "ns_probe"
                THEN <<"kubectl", "get", "namespace", args.namespace>>
                ELSE <<"kubectl", "-n", args.namespace, "get", "secret",
                       "registry-credentials">>)
         /\ Cluster' = Cluster
         /\ env' = env /\ fileExists' = fileExists]_vars

\* kubectl was not found when start probed the secret: the secret is taken to exist
C31_Witness ==
    /\ op = "start" /\ ~args.simulate /\ trace # <<>>
    /\ trace[Len(trace)].kind = "get_secret"
    /\ loc.returncode = 99 /\ pc \in {"sec_delete", "write_reg"}
    /\ args.namespace \notin secrets

C33_Kept == {K_STAGE, K_NS, K_HELM, K_SECRET, K_REGISTRY}

\* C33: a Kubernetes stop without cleanup that completes leaves the record
\* without its last deployment and with its stage, namespace and registry
\* keys; on a record without last deployment, stop --cleanup and uninstall
\* without -d return having issued no command and changed neither cluster nor
\* record; with -d kubernetes they enter K8sConfig.stop with cleanup, which
\* starts on its cleanup sections; a call of another backend leaves the
\* cluster alone.
C33_CleanupNeedsExplicitDeployment ==
    [][/\ (op = "stop" /\ ~args.cleanup /\ pc = "stop_clear" /\ pc' = "done") =>
            /\ result' = "returned"
            /\ K_LAST \notin DOMAIN GetEnv'
            /\ {K_STAGE, K_NS} \subseteq DOMAIN GetEnv'
            /\ \A k \in C33_Kept \cap DOMAIN GetEnv :
                  k \in DOMAIN GetEnv' /\ GetEnv'[k] = GetEnv[k]
       /\ (/\ pc = "idle" /\ op' \in {"cli_stop", "cli_uninstall"}
           /\ args'.cleanup /\ K_LAST \notin DOMAIN GetEnv) =>
            IF args'.deployment = ""
            THEN /\ pc' = "done" /\ result' = "returned"
                 /\ \A i \in DOMAIN trace' : trace'[i].t = "log"
                 /\ Cluster' = Cluster
                 /\ env' = env /\ fileExists' = fileExists
            ELSE args'.deployment = "kubernetes" =>
                    pc' = "invoke" /\ loc'.backend = "kubernetes"
       /\ (/\ pc = "invoke" /\ op \in {"cli_stop", "cli_uninstall"} /\ args.cleanup
           /\ pc' # "idle") =>
            IF loc.backend = "kubernetes"
            THEN /\ op' = "stop" /\ args'.cleanup
                 /\ Stage >= K8sStages_namespace =>
                       pc' \in {"uninstall", "stop_del_secret", "stop_rm_registry",
                                "stop_del_pods"}
            ELSE Cluster' = Cluster]_vars

\* uninstall without -d has returned on a record that a stop without cleanup
\* left at stage registry: namespace, secret and registry container are still there
C33_Witness ==
    /\ op = "cli_uninstall" /\ args.deployment = ""
    /\ pc = "done" /\ result = "returned"
    /\ Stage = K8sStages_registry /\ K_LAST \notin DOMAIN GetEnv
    /\ K_SECRET \in DOMAIN GetEnv
    /\ Get(GetEnv, K_NS, "") \in namespaces \cap secrets

\* the registry arguments of the running start
C34_Args == list2dict(args.registry_args, "kind", None)

\* C34: the create secret command of a start carries, after --docker-server,
\* the value given under the key server, and the default
\* https://index.docker.io/v1/ only when no server is given.
C34_ServerTakesEffect ==
    op = "start" =>
        \A i \in Issued("create_secret") :
            /\ trace[i].argv[8] = "--docker-server"
            /\ trace[i].argv[9] =
                  Or(Get(C34_Args, "server", ""), "https://index.docker.io/v1/")

====
